---- MODULE Spec2Model ----
(***************************************************************************)
(* Model of the OUI vendor-lookup cache of dspeziale/dreamword:            *)
(*   src/core/oui_cache_system.py  (OUICache)                              *)
(*   src/core/sqlite_manager.py    (SQLiteCRUD)                            *)
(*                                                                         *)
(* Strings are sequences of one-character strings.  The SQLite file is the *)
(* pair of tables oui_records / cache_metadata; every SQLiteCRUD statement *)
(* commits on its own (execute_query, line 92), so one statement is one    *)
(* atomic step and the tables below always show the committed content.     *)
(***************************************************************************)
EXTENDS Integers, Sequences, FiniteSets, TLC

\* ------------------------------------------------------------------ bounds
\* Last day of the clock.
MaxNow == 8
\* Most constructions of an OUICache on one directory in one run.
MaxInits == 3
\* Largest ttl_seconds and max_size a function is decorated with, last
\* reading of the clock, and most runs of the decorated function.
MaxTtl == 2
MaxMaxSize == 2
MaxClock == 3
MaxCalls == 3
\* Largest max_attempts a function is decorated with.
MaxAttempts == 3
\* Most threads one HeartBeat starts, and most calls of start and stop.
MaxThreads == 3
MaxBeatCalls == 5
\* Number of statements the storage may fail (disk full, file locked)
\* in one run.
MaxIoFailures == 1
\* Most lines in the texts made of every combination of lines.
MaxFeed == 3
\* Length of the long vendor name and of the long address line.
LongNameLen == 300
LongAddressLen == 600

\* ------------------------------------------------------- program constants
cache_duration_days == 7
MinMacHex == 6
MaxMacHex == 12
MaxNameLen == 255
MaxAddressLen == 500

\* ------------------------------------------------------------- characters
Lower == <<"a","b","c","d","e","f","g","h","i","j","k","l","m",
           "n","o","p","q","r","s","t","u","v","w","x","y","z">>
UpperCase == <<"A","B","C","D","E","F","G","H","I","J","K","L","M",
               "N","O","P","Q","R","S","T","U","V","W","X","Y","Z">>
HexChars == {"0","1","2","3","4","5","6","7","8","9","A","B","C","D","E","F"}
Whitespace == {" ", "\t", "\n"}
Separators == {":", "-", "."}

\* str.upper(), character by character
upper_char(c) ==
  IF \E i \in 1..26 : Lower[i] = c
  THEN UpperCase[CHOOSE i \in 1..26 : Lower[i] = c]
  ELSE c

RECURSIVE upper(_)
upper(s) ==
  IF s = <<>> THEN <<>> ELSE <<upper_char(Head(s))>> \o upper(Tail(s))

\* str.strip(): drop leading and trailing whitespace
lstrip(s) ==
  LET kept == {i \in 1..Len(s) : s[i] \notin Whitespace}
  IN  IF kept = {} THEN <<>>
      ELSE SubSeq(s, CHOOSE i \in kept : \A j \in kept : i <= j, Len(s))

rstrip(s) ==
  LET kept == {i \in 1..Len(s) : s[i] \notin Whitespace}
  IN  IF kept = {} THEN <<>>
      ELSE SubSeq(s, 1, CHOOSE i \in kept : \A j \in kept : i >= j)

strip(s) == rstrip(lstrip(s))

\* str.replace(c, '') for a one-character c
RECURSIVE remove_char(_, _)
remove_char(s, c) ==
  IF s = <<>> THEN <<>>
  ELSE IF Head(s) = c THEN remove_char(Tail(s), c)
  ELSE <<Head(s)>> \o remove_char(Tail(s), c)

\* str.replace(c, d) for one-character c and d
RECURSIVE replace_char(_, _, _)
replace_char(s, c, d) ==
  IF s = <<>> THEN <<>>
  ELSE <<IF Head(s) = c THEN d ELSE Head(s)>> \o replace_char(Tail(s), c, d)

\* s[:n]
Take(s, n) == IF Len(s) <= n THEN s ELSE SubSeq(s, 1, n)

\* ---------------------------------------------------------- _extract_oui
\* the cleaning with the pattern [:\-] : the dots stay
mac_clean_keeping_dots(mac_address) ==
  LET u == upper(strip(mac_address))
  IN  remove_char(remove_char(u, ":"), "-")

\* re.sub(r'[:\-\.]', '', mac_address.strip().upper())
mac_clean(mac_address) ==
  LET u == upper(strip(mac_address))
  IN  remove_char(remove_char(remove_char(u, ":"), "-"), ".")

\* re.match(r'^[0-9A-F]{6,12}$', mac_clean)
is_hex_6_12(s) ==
  /\ Len(s) >= MinMacHex
  /\ Len(s) <= MaxMacHex
  /\ \A i \in 1..Len(s) : s[i] \in HexChars

\* _extract_oui with the pattern ^.{6,12}$ : the hexadecimal check is lost
_extract_oui_any_char(mac_address) ==
  LET c == mac_clean(mac_address)
  IN  IF Len(c) < MinMacHex \/ Len(c) > MaxMacHex THEN <<>>
      ELSE <<c[1], c[2], "-", c[3], c[4], "-", c[5], c[6]>>

\* The prefix "XX-XX-XX" of a valid address; <<>> stands for None.
_extract_oui(mac_address) ==
  LET c == mac_clean(mac_address)
  IN  IF ~ is_hex_6_12(c) THEN <<>>
      ELSE <<c[1], c[2], "-", c[3], c[4], "-", c[5], c[6]>>

\* ---------------------------------------------------- _parse_oui_content
\* content.split('\n'): the lines of a text, without the newlines
RECURSIVE split_from(_, _)
split_from(content, start) ==
  LET ends == {i \in start..Len(content) : content[i] = "\n"}
      end == CHOOSE i \in ends : \A j \in ends : i <= j
  IN  IF ends = {} THEN <<SubSeq(content, start, Len(content))>>
      ELSE <<SubSeq(content, start, end - 1)>> \o split_from(content, end + 1)

split_lines(content) == split_from(content, 1)

\* s.startswith(p)
startswith(s, p) == Len(s) >= Len(p) /\ SubSeq(s, 1, Len(p)) = p

HexTag == <<"(", "h", "e", "x", ")">>
Base16Tag == <<"(", "b", "a", "s", "e", " ", "1", "6", ")">>

\* The tail  \s*<tag>\s+(.+)$  shared by both patterns, applied to what
\* follows the digits: the captured group, or <<>> when there is no match.
\* (The line was stripped, so the group never ends in whitespace.)
match_tagged(rest, tag) ==
  LET r1 == lstrip(rest)
  IN  IF ~ startswith(r1, tag) THEN <<>>
      ELSE LET r2 == SubSeq(r1, Len(tag) + 1, Len(r1))
           IN  IF r2 = <<>> \/ Head(r2) \notin Whitespace THEN <<>>
               ELSE lstrip(r2)

\* ^([0-9A-F]{2}-[0-9A-F]{2}-[0-9A-F]{2})\s*\(hex\)\s+(.+)$
\* <<group 1, group 2>>, or <<>> when the line does not match
oui_pattern(line) ==
  IF /\ Len(line) >= 8
     /\ \A i \in {1, 2, 4, 5, 7, 8} : line[i] \in HexChars
     /\ line[3] = "-" /\ line[6] = "-"
     /\ match_tagged(SubSeq(line, 9, Len(line)), HexTag) # <<>>
  THEN <<SubSeq(line, 1, 8), match_tagged(SubSeq(line, 9, Len(line)), HexTag)>>
  ELSE <<>>

\* ^([0-9A-F]{6})\s*\(base 16\)\s+(.+)$
base16_pattern(line) ==
  IF /\ Len(line) >= 6
     /\ \A i \in 1..6 : line[i] \in HexChars
     /\ match_tagged(SubSeq(line, 7, Len(line)), Base16Tag) # <<>>
  THEN <<SubSeq(line, 1, 6), match_tagged(SubSeq(line, 7, Len(line)), Base16Tag)>>
  ELSE <<>>

\* current_record = {}: a dict without 'oui'.  A key that is absent is
\* written <<>> (the code only ever tests the fields for truthiness).
EmptyRecord ==
  [oui |-> <<>>, oui_hex |-> <<>>, company_name |-> <<>>, company_address |-> <<>>]

\* current_record.get('oui'): is a record open?
in_record_always(cur) == TRUE

in_record(cur) == cur.oui # <<>>

\* lines 201-203: the name of the base 16 line wins when it is longer
longer_name_or_equal(held, company_name_base16) ==
  IF Len(company_name_base16) >= Len(held) THEN company_name_base16 ELSE held

longer_name(held, company_name_base16) ==
  IF Len(company_name_base16) > Len(held) THEN company_name_base16 ELSE held

\* lines 208-211: the line is added to the address, after a space
append_address_first_only(address, line) ==
  IF address # <<>> THEN address ELSE line

append_address(address, line) ==
  IF address # <<>> THEN address \o <<" ">> \o line ELSE line

\* One iteration of the loop over the lines (lines 174-211); st holds the
\* list records and the dict current_record.
parse_line(st, raw) ==
  LET line == strip(raw)
      cur  == st.current_record
  IN  IF line = <<>> \/ Head(line) = "#" THEN st
      ELSE IF oui_pattern(line) # <<>> THEN
        [records |-> IF in_record(cur) THEN Append(st.records, cur) ELSE st.records,
         current_record |->
           [oui |-> oui_pattern(line)[1], oui_hex |-> <<>>,
            company_name |-> strip(oui_pattern(line)[2]),
            company_address |-> <<>>]]
      ELSE IF base16_pattern(line) # <<>> THEN
        IF in_record(cur) THEN
          [st EXCEPT !.current_record =
             [cur EXCEPT !.oui_hex = base16_pattern(line)[1],
                         !.company_name =
                            longer_name(@, strip(base16_pattern(line)[2]))]]
        ELSE st
      ELSE IF in_record(cur) THEN
        [st EXCEPT !.current_record.company_address = append_address(@, line)]
      ELSE st

\* the loop over the lines
RECURSIVE parse_lines(_, _)
parse_lines(st, lines) ==
  IF lines = <<>> THEN st
  ELSE parse_lines(parse_line(st, Head(lines)), Tail(lines))

\* the cleaning without lines 222-223
clean_record_keeping_oui_hex(record) ==
  [oui |-> record.oui,
   oui_hex |-> record.oui_hex,
   company_name |-> Take(record.company_name, MaxNameLen),
   company_address |-> Take(record.company_address, MaxAddressLen)]

\* the cleaning without the slices of lines 226-227
clean_record_untruncated(record) ==
  [oui |-> record.oui,
   oui_hex |-> IF record.oui_hex = <<>> THEN remove_char(record.oui, "-")
               ELSE record.oui_hex,
   company_name |-> record.company_name,
   company_address |-> record.company_address]

\* lines 217-229: drop records without name, derive oui_hex, truncate
clean_record(record) ==
  [oui |-> record.oui,
   oui_hex |-> IF record.oui_hex = <<>> THEN remove_char(record.oui, "-")
               ELSE record.oui_hex,
   company_name |-> Take(record.company_name, MaxNameLen),
   company_address |-> Take(record.company_address, MaxAddressLen)]

RECURSIVE clean_records(_)
clean_records(rs) ==
  IF rs = <<>> THEN <<>>
  ELSE IF Head(rs).oui # <<>> /\ Head(rs).company_name # <<>>
       THEN <<clean_record(Head(rs))>> \o clean_records(Tail(rs))
       ELSE clean_records(Tail(rs))

_parse_oui_content(content) ==
  LET st == parse_lines([records |-> <<>>, current_record |-> EmptyRecord],
                        split_lines(content))
      flushed == IF st.current_record.oui # <<>>
                 THEN Append(st.records, st.current_record) ELSE st.records
  IN  clean_records(flushed)

\* ----------------------------------------------------------------- inputs
\* Registry texts a mirror can serve (each passes the checks of
\* _download_oui_file or is handed to the parser directly).
\* a registry text in which no line matches the hex pattern
TextNoRecords ==
  <<"O", "U", "I", "/", "M", "A", "-", "L", "\t", "O", "r", "g", "a", "n",
    "i", "z", "a", "t", "i", "o", "n", "\n", "#", " ", "0", "0", "-", "5",
    "0", "-", "5", "6", " ", "(", "h", "e", "x", ")", " ", "V", "M", "\n",
    "0", "0", "5", "0", "5", "6", " ", "(", "b", "a", "s", "e", " ", "1",
    "6", ")", " ", "V", "M", "\n">>

\* one vendor block
TextA ==
  <<"O", "U", "I", "/", "M", "A", "-", "L", "\t", "O", "r", "g", "a", "n",
    "i", "z", "a", "t", "i", "o", "n", "\n", "\n", "0", "0", "-", "5", "0",
    "-", "5", "6", " ", " ", " ", "(", "h", "e", "x", ")", "\t", "\t", "V",
    "M", "\n", "0", "0", "5", "0", "5", "6", " ", " ", " ", " ", " ", "(",
    "b", "a", "s", "e", " ", "1", "6", ")", "\t", "\t", "V", "M", "w", "a",
    "r", "e", "\n", "\t", "\t", "\t", "P", "a", "l", "o", " ", "A", "l",
    "t", "o", "\n", "\t", "\t", "\t", "U", "S", "\n">>

\* two vendor blocks, the first without a base-16 line
TextB ==
  <<"O", "U", "I", "/", "M", "A", "-", "L", "\t", "O", "r", "g", "a", "n",
    "i", "z", "a", "t", "i", "o", "n", "\n">> \o
  <<"0", "0", "-", "1", "B", "-", "2", "1", " ", " ", " ", "(", "h", "e",
    "x", ")", "\t", "\t", "I", "n", "t", "e", "l", "\n", "\n", "0", "8",
    "-", "0", "0", "-", "2", "7", " ", " ", " ", "(", "h", "e", "x", ")",
    "\t", "\t", "P", "C", "S", "\n", "0", "8", "0", "0", "2", "7", " ",
    " ", " ", " ", " ", "(", "b", "a", "s", "e", " ", "1", "6", ")", "\t",
    "\t", "P", "C", "S", "\n", "\t", "\t", "\t", "D", "E", "\n">>

\* two vendor blocks with the same prefix
TextDup ==
  <<"O", "U", "I", "/", "M", "A", "-", "L", "\t", "O", "r", "g", "a", "n",
    "i", "z", "a", "t", "i", "o", "n", "\n", "0", "0", "-", "5", "0", "-",
    "5", "6", " ", " ", " ", "(", "h", "e", "x", ")", "\t", "\t", "V", "M",
    "\n", "0", "0", "-", "5", "0", "-", "5", "6", " ", " ", " ", "(", "h",
    "e", "x", ")", "\t", "\t", "D", "u", "p", "\n">>

Texts == {TextNoRecords, TextA, TextB, TextDup}

\* Addresses passed to lookup_mac.
\* "00:50:56:12:34:56"
MacColon ==
  <<"0", "0", ":", "5", "0", ":", "5", "6", ":", "1", "2", ":", "3", "4",
    ":", "5", "6">>

\* "00-50-56-12-34-56"
MacDash ==
  <<"0", "0", "-", "5", "0", "-", "5", "6", "-", "1", "2", "-", "3", "4",
    "-", "5", "6">>

\* "005056123456"
MacPlain ==
  <<"0", "0", "5", "0", "5", "6", "1", "2", "3", "4", "5", "6">>

\* "0050.5612.3456"
MacDot ==
  <<"0", "0", "5", "0", ".", "5", "6", "1", "2", ".", "3", "4", "5", "6">>

\* "00:1b:21"
MacLower ==
  <<"0", "0", ":", "1", "b", ":", "2", "1">>

\* " 005056\n"
MacPadded ==
  <<" ", "0", "0", "5", "0", "5", "6", "\n">>

\* "not-a-mac"
MacNotAMac ==
  <<"n", "o", "t", "-", "a", "-", "m", "a", "c">>

\* "00:50"
MacShort ==
  <<"0", "0", ":", "5", "0">>

\* "0050561234567"
MacLong ==
  <<"0", "0", "5", "0", "5", "6", "1", "2", "3", "4", "5", "6", "7">>

\* "00 50 56"
MacInnerSpace ==
  <<"0", "0", " ", "5", "0", " ", "5", "6">>

MacInputs ==
  {MacColon, MacDash, MacPlain, MacDot, MacLower, MacPadded,
   MacNotAMac, MacShort, MacLong, MacInnerSpace}

\* ------------------------------------------------------------ Python values
\* datetime.isoformat() / datetime.fromisoformat() and str(int): the text
\* stored in cache_metadata.value, kept apart from the number it encodes
isoformat(t) == [isoformat |-> t]
fromisoformat(s) == s.isoformat
str(n) == [str |-> n]

\* An argument handed to SQLiteCRUD.select: a str, a tuple or None
Str(s) == [py |-> "str", v |-> s]
Tup(x) == [py |-> "tuple", v |-> x]
PyNone == [py |-> "None", v |-> ""]

\* lookup_mac's answer: None, or the dict built from the row found
None == [found |-> FALSE]

\* ------------------------------------------------------------- SQLiteCRUD
\* number of '?' placeholders of an SQL fragment used by OUICache
placeholders(sql) ==
  CASE sql = "key = ?" -> 1
    [] sql = "oui = ? OR oui_hex = ?" -> 2
    [] OTHER -> 0

\* Does sqlite3 accept "SELECT {columns} FROM t WHERE {where}" with the
\* bindings params?  A tuple formatted into the text ("('last_update',)",
\* "('00-50-56', '005056')") is no SQL condition, and the number of
\* bindings must equal the number of placeholders (execute_query, 80-98).
query_ok(columns, where, params) ==
  /\ where.py # "tuple"
  /\ (IF params.py = "tuple" THEN Len(params.v) ELSE 0)
       = placeholders(columns.v)
         + (IF where.py = "str" THEN placeholders(where.v) ELSE 0)

\* the WHERE conditions OUICache uses, evaluated on one row
row_matches(row, where, params) ==
  IF where.py # "str" THEN TRUE
  ELSE IF where.v = "key = ?" THEN row.key = params.v[1]
  ELSE IF where.v = "oui = ? OR oui_hex = ?"
       THEN row.oui = params.v[1] \/ row.oui_hex = params.v[2]
  ELSE TRUE

\* SQLiteCRUD.select(table, columns, where, params) on the rows of table:
\* columns, where and params are its 2nd, 3rd and 4th parameter; every
\* exception of execute_query is caught and [] returned (lines 240-242).
select(rows, columns, where, params) ==
  IF ~ query_ok(columns, where, params) THEN <<>>
  ELSE LET Test(row) == row_matches(row, where, params)
       IN  SelectSeq(rows, Test)

\* the insert into a table whose oui column is not UNIQUE
insert_ok_without_unique(rows, row) == TRUE

\* Can "INSERT INTO oui_records" of row succeed?  oui is UNIQUE (line 68).
insert_ok(rows, row) == \A k \in 1..Len(rows) : rows[k].oui # row.oui

\* INSERT OR REPLACE INTO cache_metadata (key, value, updated_at): key is
\* UNIQUE, the row that holds it is deleted and the new one added.
insert_or_replace(rows, key, value, updated_at) ==
  LET Other(row) == row.key # key
  IN  Append(SelectSeq(rows, Other),
             [key |-> key, value |-> value, updated_at |-> updated_at])

\* ------------------------------------------------------------------ state
Threads == {"t1", "t2"}
\* the thread that calls update_cache and lookup_mac
Callers == {"t1"}
\* a thread that polls get_cache_stats meanwhile
Monitors == {"t2"}

VARIABLES
  oui_records,     \* table oui_records: the committed rows, in rowid order
  cache_metadata,  \* table cache_metadata: the committed rows, in rowid order
  now,             \* datetime.now(), in days
  pc,              \* per thread: where its call stands
  op,              \* per thread: the method it called last
  force,           \* per thread: argument force of update_cache
  mac,             \* per thread: argument mac_address of lookup_mac
  records,         \* per thread: the parsed records handed to _save_to_cache
  idx,             \* per thread: position of the insert loop in records
  pre,             \* per thread: the tables as they were when the call began
  fetch,           \* per thread: "not_called", "failed" or "ok"
  writes,          \* per thread: the kinds of write statement the call issued
  queried,         \* per thread: did the call send a SELECT to the store
  raised,          \* per thread: did a statement of _save_to_cache fail
  updated,         \* per thread: what update_cache returned ("none" before)
  result,          \* per thread: what lookup_mac or search_vendor returned
  io_failures,     \* number of statements the storage has failed so far
  stats,           \* per thread: what get_cache_stats returned, and when
  vendor_name,     \* per thread: argument vendor_name of search_vendor
  limit,           \* per thread: argument limit of search_vendor
  query,           \* per thread: the final query of lookup_mac or
                   \* search_vendor: "none" (not sent), "ok" or "error"
  feed,            \* _parse_oui_content: the lines its content is made of
  feed_lines,      \* _parse_oui_content: lines = content.split('\n')
  line_no,         \* _parse_oui_content: lines consumed by the loop
  parser,          \* _parse_oui_content: records and current_record
  cleaned_records, \* _parse_oui_content: the list returned
  parser_pc,       \* _parse_oui_content: "start", "loop" or "returned"
  responses,       \* _download_oui_file: what each mirror answers when asked
  url_no,          \* _download_oui_file: mirrors the loop has gone through
  contacted,       \* _download_oui_file: the mirrors requested, in order
  downloaded,      \* _download_oui_file: the value returned
  download_pc,     \* _download_oui_file: "loop" or "returned"
  extract_address, \* _extract_oui: argument mac_address
  extracted,       \* _extract_oui: the value returned, <<>> for None
  extract_pc,      \* _extract_oui: "start" or "returned"
  oui_cache,       \* app.py: the global oui_cache, "None" until constructed
  handler,         \* app.py: "idle", or the route whose handler is running
  request,         \* app.py: the request being served, or served last
  reply,           \* app.py: the response to it
  batch,           \* api_batch_lookup: results and found_count
  called,          \* app.py: the calls of the cache made for the request
  schema,          \* the tables that exist in the file oui_cache.db
  inits,           \* per run of _init_database: the vendor rows it found
  plugins,         \* PluginManager.plugins: the names registered, in dict order
  plugin_paths,    \* PluginManager.plugin_paths
  initialized,     \* per name: flag initialized of its plugin object
  plugin_call,     \* the last call made to the manager, and its result
  ttl_seconds,     \* cache_result: argument ttl_seconds of the decorator
  max_size,        \* cache_result: argument max_size of the decorator
  cache,           \* cache_result: dict cache, entries in dict order
  access_times,    \* cache_result: dict access_times, in dict order
  clock,           \* time.time()
  call_count,      \* number of runs of the wrapped function so far
  cached_at,       \* per key: the clock when its entry was put in cache
  memo_call,       \* the last call of the wrapper and what it did
  max_attempts,    \* retry: argument max_attempts of the decorator
  exceptions,      \* retry: argument exceptions, the types retried
  attempts,        \* retry: how each run of the function in this call ended
  current_delay,   \* retry: local current_delay
  slept,           \* retry: the sleeps of this call, in order
  retry_pc,        \* retry: "loop", "returned" or "raised"
  retry_result,    \* retry: what the call returned or raised
  interval,        \* HeartBeat.interval, in seconds
  running,         \* HeartBeat.running
  thread,          \* HeartBeat.thread: 0 for None, or the number of a thread
  loops,           \* per thread created: where its _heartbeat_loop stands
  beat_pc,         \* the caller: "idle", or "joining" inside stop()
  beat_calls       \* the calls of start and stop made, in order

vars == <<oui_records, cache_metadata, now, pc, op, force, mac, records, idx,
          pre, fetch, writes, queried, raised, updated, result, io_failures,
          stats, vendor_name, limit, query, feed, feed_lines, line_no, parser,
          cleaned_records, parser_pc, responses, url_no, contacted,
          downloaded, download_pc, extract_address, extracted,
          extract_pc,
          oui_cache, handler, request, reply, batch, called,
          schema, inits,
          plugins, plugin_paths, initialized, plugin_call,
          ttl_seconds, max_size, cache, access_times, clock, call_count, cached_at, memo_call,
          max_attempts, exceptions, attempts, current_delay, slept, retry_pc, retry_result,
          interval, running, thread, loops, beat_pc, beat_calls>>

tables == <<oui_records, cache_metadata>>
locals == <<pc, op, force, mac, records, idx, pre, fetch, writes, queried,
            raised, updated, result, vendor_name, limit, query>>
search_args == <<vendor_name, limit>>
parsing == <<feed, feed_lines, line_no, parser, cleaned_records, parser_pc>>
downloading == <<responses, url_no, contacted, downloaded, download_pc>>
\* what a call of the cache leaves alone
extracting == <<extract_address, extracted, extract_pc>>
serving == <<oui_cache, handler, request, reply, batch, called>>
storage == <<schema, inits>>
\* the parts of the program beside the cache, its parser and its routes
plugging == <<plugins, plugin_paths, initialized, plugin_call>>
memoizing == <<ttl_seconds, max_size, cache, access_times, clock, call_count,
               cached_at, memo_call>>
retrying == <<max_attempts, exceptions, attempts, current_delay, slept,
              retry_pc, retry_result>>
beating == <<interval, running, thread, loops, beat_pc, beat_calls>>
elsewhere == <<storage, plugging, memoizing, retrying, beating>>
\* the cache with its parser, its fetcher and its routes
the_cache ==
  <<tables, now, locals, io_failures, stats, parsing, downloading,
    extracting, serving>>
\* what entering a method of the cache leaves alone
aside_of_call == <<parsing, downloading, extracting, elsewhere>>
\* what the later steps of a call of the cache leave alone
aside == <<parsing, downloading, extracting, serving, elsewhere>>
\* what a call of _parse_oui_content leaves alone
outside_parser ==
  <<tables, now, locals, io_failures, stats, downloading, extracting,
    serving, elsewhere>>
\* what a call of _download_oui_file leaves alone
outside_download ==
  <<tables, now, locals, io_failures, stats, parsing, extracting, serving,
    elsewhere>>
\* what a call of _extract_oui leaves alone
outside_extract ==
  <<tables, now, locals, io_failures, stats, parsing, downloading, serving,
    elsewhere>>

NoStats == [called |-> FALSE]

\* The cache after construction: both tables exist and are empty, no call
\* has been made.
CacheInit ==
  /\ oui_records = <<>>
  /\ cache_metadata = <<>>
  /\ now = 0
  /\ pc = [t \in Threads |-> "idle"]
  /\ op = [t \in Threads |-> "none"]
  /\ force = [t \in Threads |-> FALSE]
  /\ mac = [t \in Threads |-> <<>>]
  /\ records = [t \in Threads |-> <<>>]
  /\ idx = [t \in Threads |-> 0]
  /\ pre = [t \in Threads |->
             [oui_records |-> <<>>, cache_metadata |-> <<>>, now |-> 0]]
  /\ fetch = [t \in Threads |-> "not_called"]
  /\ writes = [t \in Threads |-> {}]
  /\ queried = [t \in Threads |-> FALSE]
  /\ raised = [t \in Threads |-> FALSE]
  /\ updated = [t \in Threads |-> "none"]
  /\ result = [t \in Threads |-> None]
  /\ io_failures = 0
  /\ stats = [t \in Threads |-> NoStats]
  /\ vendor_name = [t \in Threads |-> <<>>]
  /\ limit = [t \in Threads |-> 0]
  /\ query = [t \in Threads |-> "none"]

\* No call of _parse_oui_content has been made.
ParserIdle ==
  /\ feed = <<>>
  /\ feed_lines = <<>>
  /\ line_no = 0
  /\ parser = [records |-> <<>>, current_record |-> EmptyRecord]
  /\ cleaned_records = <<>>
  /\ parser_pc = "start"

\* No call of _download_oui_file has been made.
DownloadIdle ==
  /\ responses = <<>>
  /\ url_no = 0
  /\ contacted = <<>>
  /\ downloaded = [ok |-> FALSE, text |-> <<>>]
  /\ download_pc = "loop"

\* No call of _extract_oui alone has been made.
ExtractIdle ==
  /\ extract_address = <<>>
  /\ extracted = <<>>
  /\ extract_pc = "start"

\* app.py after import: no cache object yet (line 218), no request served.
NoRequest == [route |-> "none"]
NoReply == [status |-> 0]
NoBatch == [results |-> <<>>, found_count |-> 0]
ServingIdle ==
  /\ oui_cache = "None"
  /\ handler = "idle"
  /\ request = NoRequest
  /\ reply = NoReply
  /\ batch = NoBatch
  /\ called = <<>>

AllTables == {"oui_records", "cache_metadata"}

\* The constructor has run _init_database once (line 43): both tables exist.
StorageReady ==
  /\ schema = AllTables
  /\ inits = <<0>>

PluginNames == {"test_plugin", "second_plugin", "third_plugin"}

\* PluginManager.__init__ (lines 18-28); no plugin object exists yet.
PluginsIdle ==
  /\ plugins = <<>>
  /\ plugin_paths = <<>>
  /\ initialized = [n \in PluginNames |-> FALSE]
  /\ plugin_call = [method |-> "none"]

MemoKeys == {"('a',)[]", "('b',)[]", "('c',)[]"}

\* A function decorated with the defaults of cache_result (line 107) and
\* not called yet: both dicts are empty (lines 118-119).
MemoEmpty ==
  /\ cache = <<>>
  /\ access_times = <<>>
  /\ clock = 0
  /\ call_count = 0
  /\ cached_at = [k \in MemoKeys |-> 0]
  /\ memo_call = [kind |-> "none"]

MemoIdle ==
  /\ ttl_seconds = 300
  /\ max_size = 128
  /\ MemoEmpty

NoResult == [kind |-> "none"]

\* A call of a function decorated with retry that is about to make its first
\* attempt (lines 46-49).
RetryStart ==
  /\ attempts = <<>>
  /\ current_delay = 1
  /\ slept = <<>>
  /\ retry_pc = "loop"
  /\ retry_result = NoResult

\* the defaults of the decorator (line 13)
RetryIdle ==
  /\ max_attempts = 3
  /\ exceptions = {"Exception"}
  /\ RetryStart

\* HeartBeat.__init__ (lines 12-20): not running, no thread.
HeartBeatNew ==
  /\ running = FALSE
  /\ thread = 0
  /\ loops = <<>>
  /\ beat_pc = "idle"
  /\ beat_calls = <<>>

HeartBeatIdle ==
  /\ interval = 30
  /\ HeartBeatNew

ElsewhereIdle ==
  StorageReady /\ PluginsIdle /\ MemoIdle /\ RetryIdle /\ HeartBeatIdle

Init ==
  /\ CacheInit /\ ParserIdle /\ DownloadIdle /\ ExtractIdle /\ ServingIdle
  /\ ElsewhereIdle

\* ------------------------------------------------------------ the fetcher
\* What _download_oui_file can return: None (every mirror failed) or the
\* text of the first mirror that passed validation.
Downloads ==
  {[ok |-> FALSE, text |-> <<>>]} \cup {[ok |-> TRUE, text |-> x] : x \in Texts}

\* ----------------------------------------------------- _download_oui_file
\* lines 27-31: the mirrors, in the order of the list
oui_urls ==
  <<"https://standards-oui.ieee.org/oui/oui.txt",
    "http://linuxnet.ca/ieee/oui.txt",
    "https://standards.ieee.org/regauth/oui/oui.txt">>

\* line 132: a declared length below this is "too small"
MinContentLength == 1000000

\* Python's `sub in s` on strings
py_in(sub, s) ==
  \E k \in 0..(Len(s) - Len(sub)) : SubSeq(s, k + 1, k + Len(sub)) = sub

MarkerOui == <<"O", "U", "I", "/", "M", "A", "-", "L">>
MarkerOrganization ==
  <<"O", "r", "g", "a", "n", "i", "z", "a", "t", "i", "o", "n">>

\* int(s) for a string: decimal digits, with a sign before them and
\* whitespace around them if any; anything else raises ValueError
Digits == <<"0", "1", "2", "3", "4", "5", "6", "7", "8", "9">>
digit(c) == (CHOOSE d \in 1..10 : Digits[d] = c) - 1
unsigned(s) ==
  LET x == strip(s)
  IN  IF x # <<>> /\ x[1] \in {"+", "-"} THEN Tail(x) ELSE x
int_raises(s) ==
  \/ unsigned(s) = <<>>
  \/ \E k \in 1..Len(unsigned(s)) :
       \A d \in 1..10 : Digits[d] # unsigned(s)[k]
RECURSIVE natural(_)
natural(s) ==
  IF s = <<>> THEN 0
  ELSE 10 * natural(SubSeq(s, 1, Len(s) - 1)) + digit(s[Len(s)])
int(s) ==
  IF strip(s)[1] = "-" THEN 0 - natural(unsigned(s)) ELSE natural(unsigned(s))

\* raise_for_status(): HTTPError for a 4xx or 5xx status
raise_for_status(status_code) == status_code >= 400 /\ status_code < 600

\* Truth value of response.headers.get('content-length'): None and the
\* empty string are false
truthy(header) == header.py = "str" /\ header.v # <<>>

\* What the mirrors can answer.  raises says where the request fails:
\* "get" (requests.get: timeout, connection error), "text" (the body
\* cannot be read) or "none".
Response(raises, status_code, content_length, body) ==
  [raises |-> raises, status_code |-> status_code,
   content_length |-> content_length, text |-> body]

\* a page that names the registry but is not the registry file
TextOneMarker ==
  <<"<", "h", "1", ">", "O", "U", "I", "/", "M", "A", "-", "L", " ", "m",
    "o", "v", "e", "d", "<", "/", "h", "1", ">">>
TextNotFound == <<"N", "o", "t", " ", "F", "o", "u", "n", "d">>

Responses ==
  { Response("get", 0, PyNone, <<>>),
    Response("text", 200, PyNone, <<>>),
    Response("none", 404, PyNone, TextNotFound),
    Response("none", 503, Str(<<"1", "0", "0", "0", "0", "0", "0">>), TextA),
    Response("none", 200, Str(<<"9", "9", "9", "9", "9", "9">>), TextA),
    Response("none", 200, Str(<<"a", "b", "c">>), TextA),
    Response("none", 200, PyNone, TextOneMarker),
    Response("none", 200, PyNone, TextA),
    Response("none", 200, Str(<<"1", "0", "0", "0", "0", "0", "0">>), TextB),
    Response("none", 200, Str(<<>>), TextDup),
    Response("none", 300, PyNone, TextNoRecords) }

\* the validation without the test for "Organization"
attempt_one_marker(response) ==
  IF response.raises = "get" THEN "continue"
  ELSE IF raise_for_status(response.status_code) THEN "continue"
  ELSE IF truthy(response.content_length)
          /\ int_raises(response.content_length.v) THEN "continue"
  ELSE IF truthy(response.content_length)
          /\ int(response.content_length.v) < MinContentLength
       THEN "continue"
  ELSE IF response.raises = "text" THEN "continue"
  ELSE IF py_in(MarkerOui, response.text) THEN "return"
  ELSE "continue"

\* lines 119-150: the body of the loop for one mirror's response: "return"
\* (line 141) or "continue" (on to the next mirror)
attempt(response) ==
  \* lines 122-127, 145-150: requests.get raises
  IF response.raises = "get" THEN "continue"
  \* lines 128, 145-147
  ELSE IF raise_for_status(response.status_code) THEN "continue"
  \* lines 132, 148-150: int() raises ValueError
  ELSE IF truthy(response.content_length)
          /\ int_raises(response.content_length.v) THEN "continue"
  \* lines 132-134
  ELSE IF truthy(response.content_length)
          /\ int(response.content_length.v) < MinContentLength
       THEN "continue"
  \* lines 136, 145-150: response.text raises
  ELSE IF response.raises = "text" THEN "continue"
  \* lines 139-143
  ELSE IF py_in(MarkerOui, response.text)
          /\ py_in(MarkerOrganization, response.text) THEN "return"
  ELSE "continue"

\* A call of _download_oui_file() is about to start.
InitDownload ==
  /\ CacheInit
  /\ ElsewhereIdle
  /\ ServingIdle
  /\ ParserIdle
  /\ ExtractIdle
  /\ responses \in [1..Len(oui_urls) -> Responses]
  /\ url_no = 0
  /\ contacted = <<>>
  /\ downloaded = [ok |-> FALSE, text |-> <<>>]
  /\ download_pc = "loop"

\* the loop that goes on to the next mirror after a success
try_url_keep_going ==
  /\ download_pc = "loop"
  /\ url_no < Len(oui_urls)
  /\ contacted' = Append(contacted, url_no + 1)
  /\ url_no' = url_no + 1
  /\ IF attempt(responses[url_no + 1]) = "return"
     THEN /\ downloaded' = [ok |-> TRUE, text |-> responses[url_no + 1].text]
          /\ download_pc' = IF url_no' = Len(oui_urls) THEN "returned"
                            ELSE "loop"
     ELSE UNCHANGED <<downloaded, download_pc>>
  /\ UNCHANGED <<outside_download, responses>>

\* the loop that gives up when requests.get raises
try_url_aborting ==
  /\ download_pc = "loop"
  /\ url_no < Len(oui_urls)
  /\ contacted' = Append(contacted, url_no + 1)
  /\ IF attempt(responses[url_no + 1]) = "return"
     THEN /\ downloaded' = [ok |-> TRUE, text |-> responses[url_no + 1].text]
          /\ download_pc' = "returned"
          /\ url_no' = url_no
     ELSE IF responses[url_no + 1].raises = "get"
     THEN /\ download_pc' = "returned"
          /\ UNCHANGED <<downloaded, url_no>>
     ELSE /\ url_no' = url_no + 1
          /\ UNCHANGED <<downloaded, download_pc>>
  /\ UNCHANGED <<outside_download, responses>>

\* lines 118-150: one iteration of `for url in self.oui_urls`
try_url ==
  /\ download_pc = "loop"
  /\ url_no < Len(oui_urls)
  /\ contacted' = Append(contacted, url_no + 1)
  /\ IF attempt(responses[url_no + 1]) = "return"
     THEN /\ downloaded' = [ok |-> TRUE, text |-> responses[url_no + 1].text]
          /\ download_pc' = "returned"
          /\ url_no' = url_no
     ELSE /\ url_no' = url_no + 1
          /\ UNCHANGED <<downloaded, download_pc>>
  /\ UNCHANGED <<outside_download, responses>>

\* lines 152-153: every mirror failed
return_none ==
  /\ download_pc = "loop"
  /\ url_no = Len(oui_urls)
  /\ downloaded' = [ok |-> FALSE, text |-> <<>>]
  /\ download_pc' = "returned"
  /\ UNCHANGED <<outside_download, responses, url_no, contacted>>

NextDownload == try_url \/ return_none

SpecDownload == InitDownload /\ [][NextDownload]_vars

\* ---------------------------------------------------------- _needs_update
\* _needs_update that answers "no row" with the emptiness test alone
_needs_update_count_only ==
  LET rows == select(cache_metadata, Str("key = ?"),
                     Tup(<<"last_update">>), PyNone)
  IN  IF rows = <<>> THEN Len(oui_records) = 0
      ELSE IF now - fromisoformat(rows[1].value) > cache_duration_days
           THEN TRUE
      ELSE Len(oui_records) = 0

\* db.select("cache_metadata", "key = ?", ("last_update",)) binds "key = ?"
\* to columns and the tuple to where.
_needs_update ==
  LET rows == select(cache_metadata, Str("key = ?"),
                     Tup(<<"last_update">>), PyNone)
  IN  IF rows = <<>> THEN TRUE
      ELSE IF now - fromisoformat(rows[1].value) > cache_duration_days
           THEN TRUE
      ELSE Len(oui_records) = 0

\* ----------------------------------------------------------- update_cache
\* records = self._parse_oui_content(content), for every text served
parsed == [x \in Texts |-> _parse_oui_content(x)]

\* Lines 292-309, up to the call of _save_to_cache, for the outcome dl of
\* _download_oui_file: is the fetcher called, which records are parsed, and
\* does the call go on to save them (otherwise it returns False).
\* update_cache without the test "if not content: return False"
before_save_ignoring_failed_fetch(f, dl) ==
  IF ~ f /\ ~ _needs_update
  THEN [fetch |-> "not_called", records |-> <<>>, save |-> FALSE]
  ELSE IF ~ dl.ok
  THEN [fetch |-> "failed", records |-> <<>>, save |-> TRUE]
  ELSE [fetch |-> "ok", records |-> parsed[dl.text],
        save |-> parsed[dl.text] # <<>>]

\* update_cache without the test "if not records: return False"
before_save_ignoring_empty_parse(f, dl) ==
  IF ~ f /\ ~ _needs_update
  THEN [fetch |-> "not_called", records |-> <<>>, save |-> FALSE]
  ELSE IF ~ dl.ok
  THEN [fetch |-> "failed", records |-> <<>>, save |-> FALSE]
  ELSE [fetch |-> "ok", records |-> parsed[dl.text], save |-> TRUE]

before_save(f, dl) ==
  IF ~ f /\ ~ _needs_update
  THEN [fetch |-> "not_called", records |-> <<>>, save |-> FALSE]
  ELSE IF ~ dl.ok
  THEN [fetch |-> "failed", records |-> <<>>, save |-> FALSE]
  ELSE [fetch |-> "ok", records |-> parsed[dl.text],
        save |-> parsed[dl.text] # <<>>]

Callable(t) == pc[t] \in {"idle", "done"}

\* lookup_mac and search_vendor returning as soon as update_cache has
after_update_then_return(o) == "done"

\* where a thread goes when its update_cache has returned
after_update(o) == IF o = "update_cache" THEN "done" ELSE "select"

\* Entry of update_cache(force=f), called directly (o = "update_cache") or
\* from lookup_mac(m): everything up to the first write statement.
enter_update_cache(t, o, f, m, dl) ==
  LET b == before_save(f, dl)
  IN  /\ op' = [op EXCEPT ![t] = o]
      /\ force' = [force EXCEPT ![t] = f]
      /\ mac' = [mac EXCEPT ![t] = m]
      /\ pre' = [pre EXCEPT ![t] =
                  [oui_records |-> oui_records,
                   cache_metadata |-> cache_metadata, now |-> now]]
      /\ fetch' = [fetch EXCEPT ![t] = b.fetch]
      /\ records' = [records EXCEPT ![t] = b.records]
      /\ idx' = [idx EXCEPT ![t] = 0]
      /\ writes' = [writes EXCEPT ![t] = {}]
      /\ queried' = [queried EXCEPT ![t] = ~ f]
      /\ raised' = [raised EXCEPT ![t] = FALSE]
      /\ result' = [result EXCEPT ![t] = None]
      /\ updated' = [updated EXCEPT ![t] = IF b.save THEN "none" ELSE "False"]
      /\ pc' = [pc EXCEPT ![t] = IF b.save THEN "delete" ELSE after_update(o)]
      /\ query' = [query EXCEPT ![t] = "none"]
      /\ UNCHANGED <<tables, now, io_failures, stats, aside_of_call>>

update_cache(t, f) ==
  /\ Callable(t)
  /\ \E dl \in Downloads : enter_update_cache(t, "update_cache", f, <<>>, dl)
  /\ UNCHANGED <<search_args, serving>>

\* --------------------------------------------------------- _save_to_cache
\* Outcomes of one statement sent to the storage: TRUE when it is carried
\* out, FALSE when sqlite3 raises an I/O error.
IoOutcomes == IF io_failures < MaxIoFailures THEN {TRUE, FALSE} ELSE {TRUE}

io_count(ok) == IF ok THEN io_failures ELSE io_failures + 1

\* db.execute_query("DELETE FROM oui_records"), committed at once; when the
\* connection or the statement fails the exception leaves _save_to_cache
\* and update_cache returns False (lines 278-280, 317-319).
_save_to_cache_delete(t) ==
  /\ pc[t] = "delete"
  /\ \E ok \in IoOutcomes :
       /\ io_failures' = io_count(ok)
       /\ IF ok
          THEN /\ oui_records' = <<>>
               /\ writes' = [writes EXCEPT ![t] = @ \cup {"delete"}]
               /\ idx' = [idx EXCEPT ![t] = 1]
               /\ pc' = [pc EXCEPT ![t] =
                          IF records[t] = <<>> THEN "last_update"
                          ELSE "insert"]
               /\ UNCHANGED <<raised, updated>>
          ELSE /\ raised' = [raised EXCEPT ![t] = TRUE]
               /\ updated' = [updated EXCEPT ![t] = "False"]
               /\ pc' = [pc EXCEPT ![t] = after_update(op[t])]
               /\ UNCHANGED <<oui_records, writes, idx>>
  /\ UNCHANGED <<cache_metadata, now, op, force, mac, records, pre, fetch,
                 queried, result, stats, query, search_args, aside>>

\* the loop with INSERT OR REPLACE: a row with the same oui gives way
_save_to_cache_insert_or_replace(t) ==
  /\ pc[t] = "insert"
  /\ \E ok \in IoOutcomes :
       /\ io_failures' = io_count(ok)
       /\ IF ok
          THEN /\ oui_records' =
                    LET kept == {k \in 1..Len(oui_records) :
                                   oui_records[k].oui # records[t][idx[t]].oui}
                    IN  IF Cardinality(kept) = Len(oui_records)
                        THEN Append(oui_records, records[t][idx[t]])
                        ELSE <<records[t][idx[t]]>>
               /\ writes' = [writes EXCEPT ![t] = @ \cup {"insert"}]
               /\ UNCHANGED raised
          ELSE /\ raised' = [raised EXCEPT ![t] = TRUE]
               /\ UNCHANGED <<oui_records, writes>>
  /\ idx' = [idx EXCEPT ![t] = @ + 1]
  /\ pc' = [pc EXCEPT ![t] =
             IF idx[t] = Len(records[t]) THEN "last_update" ELSE "insert"]
  /\ UNCHANGED <<cache_metadata, now, op, force, mac, records, pre, fetch,
                 queried, updated, result, stats, query, search_args,
                 aside>>

\* One iteration of the loop of lines 249-263: db.insert commits the row,
\* or fails (I/O error, or a row with the same oui exists) and returns
\* None, which the loop ignores.
_save_to_cache_insert(t) ==
  /\ pc[t] = "insert"
  /\ \E ok \in IoOutcomes :
       /\ io_failures' = io_count(ok)
       /\ IF ok /\ insert_ok(oui_records, records[t][idx[t]])
          THEN /\ oui_records' = Append(oui_records, records[t][idx[t]])
               /\ writes' = [writes EXCEPT ![t] = @ \cup {"insert"}]
               /\ UNCHANGED raised
          ELSE /\ raised' = [raised EXCEPT ![t] = TRUE]
               /\ UNCHANGED <<oui_records, writes>>
  /\ idx' = [idx EXCEPT ![t] = @ + 1]
  /\ pc' = [pc EXCEPT ![t] =
             IF idx[t] = Len(records[t]) THEN "last_update" ELSE "insert"]
  /\ UNCHANGED <<cache_metadata, now, op, force, mac, records, pre, fetch,
                 queried, updated, result, stats, query, search_args,
                 aside>>

\* INSERT OR REPLACE of the row 'last_update' (lines 266-269)
_save_to_cache_last_update(t) ==
  /\ pc[t] = "last_update"
  /\ \E ok \in IoOutcomes :
       /\ io_failures' = io_count(ok)
       /\ IF ok
          THEN /\ cache_metadata' =
                    insert_or_replace(cache_metadata, "last_update",
                                      isoformat(now), isoformat(now))
               /\ writes' = [writes EXCEPT ![t] = @ \cup {"replace"}]
               /\ pc' = [pc EXCEPT ![t] = "total_records"]
               /\ UNCHANGED <<raised, updated>>
          ELSE /\ raised' = [raised EXCEPT ![t] = TRUE]
               /\ updated' = [updated EXCEPT ![t] = "False"]
               /\ pc' = [pc EXCEPT ![t] = after_update(op[t])]
               /\ UNCHANGED <<cache_metadata, writes>>
  /\ UNCHANGED <<oui_records, now, op, force, mac, records, idx, pre, fetch,
                 queried, result, stats, query, search_args, aside>>

\* update_cache that returns True whatever became of the last statement
_save_to_cache_total_records_unchecked(t) ==
  /\ pc[t] = "total_records"
  /\ \E ok \in IoOutcomes :
       /\ io_failures' = io_count(ok)
       /\ IF ok
          THEN /\ cache_metadata' =
                    insert_or_replace(cache_metadata, "total_records",
                                      str(Len(records[t])), isoformat(now))
               /\ writes' = [writes EXCEPT ![t] = @ \cup {"replace"}]
               /\ UNCHANGED raised
          ELSE /\ raised' = [raised EXCEPT ![t] = TRUE]
               /\ UNCHANGED <<cache_metadata, writes>>
  /\ updated' = [updated EXCEPT ![t] = "True"]
  /\ pc' = [pc EXCEPT ![t] = after_update(op[t])]
  /\ UNCHANGED <<oui_records, now, op, force, mac, records, idx, pre, fetch,
                 queried, result, stats, query, search_args, aside>>

\* INSERT OR REPLACE of the row 'total_records' (lines 271-274); after it
\* _save_to_cache ends and update_cache returns True (line 315).
_save_to_cache_total_records(t) ==
  /\ pc[t] = "total_records"
  /\ \E ok \in IoOutcomes :
       /\ io_failures' = io_count(ok)
       /\ IF ok
          THEN /\ cache_metadata' =
                    insert_or_replace(cache_metadata, "total_records",
                                      str(Len(records[t])), isoformat(now))
               /\ writes' = [writes EXCEPT ![t] = @ \cup {"replace"}]
               /\ updated' = [updated EXCEPT ![t] = "True"]
               /\ UNCHANGED raised
          ELSE /\ raised' = [raised EXCEPT ![t] = TRUE]
               /\ updated' = [updated EXCEPT ![t] = "False"]
               /\ UNCHANGED <<cache_metadata, writes>>
  /\ pc' = [pc EXCEPT ![t] = after_update(op[t])]
  /\ UNCHANGED <<oui_records, now, op, force, mac, records, idx, pre, fetch,
                 queried, result, stats, query, search_args, aside>>

\* ------------------------------------------------------------- lookup_mac
\* oui = self._extract_oui(mac_address), for every address queried
prefix_of == [m \in MacInputs |-> _extract_oui(m)]

\* Lines 360-367: an address without a valid prefix returns None at once;
\* otherwise update_cache() is called with force=False.
call_lookup_mac(t, m) ==
  /\ Callable(t)
  /\ IF prefix_of[m] = <<>>
     THEN /\ op' = [op EXCEPT ![t] = "lookup_mac"]
          /\ force' = [force EXCEPT ![t] = FALSE]
          /\ mac' = [mac EXCEPT ![t] = m]
          /\ pre' = [pre EXCEPT ![t] =
                      [oui_records |-> oui_records,
                       cache_metadata |-> cache_metadata, now |-> now]]
          /\ fetch' = [fetch EXCEPT ![t] = "not_called"]
          /\ records' = [records EXCEPT ![t] = <<>>]
          /\ idx' = [idx EXCEPT ![t] = 0]
          /\ writes' = [writes EXCEPT ![t] = {}]
          /\ queried' = [queried EXCEPT ![t] = FALSE]
          /\ raised' = [raised EXCEPT ![t] = FALSE]
          /\ updated' = [updated EXCEPT ![t] = "none"]
          /\ result' = [result EXCEPT ![t] = None]
          /\ pc' = [pc EXCEPT ![t] = "done"]
          /\ query' = [query EXCEPT ![t] = "none"]
          /\ UNCHANGED <<tables, now, io_failures, stats, aside_of_call>>
     ELSE \E dl \in Downloads : enter_update_cache(t, "lookup_mac", FALSE, m, dl)
  /\ UNCHANGED search_args

\* lookup_mac called from outside the HTTP handlers
lookup_mac(t, m) == call_lookup_mac(t, m) /\ UNCHANGED serving

\* the two bindings lookup_mac computes from the prefix (lines 374-375)
oui_dashed(oui) == upper(replace_char(replace_char(oui, ":", "-"), ".", "-"))
oui_compact(oui) ==
  upper(remove_char(remove_char(remove_char(oui, ":"), "-"), "."))

\* Lines 369-388, the query and the dict made of its first row, for the
\* address m on the table rows.
lookup_query(rows, m) ==
  LET oui == prefix_of[m]
      found == select(rows, Str("oui = ? OR oui_hex = ?"),
                      Tup(<<oui_dashed(oui), oui_compact(oui)>>), PyNone)
  IN  IF found # <<>>
      THEN [found |-> TRUE, oui |-> found[1].oui,
            oui_hex |-> found[1].oui_hex,
            vendor |-> found[1].company_name,
            address |-> found[1].company_address,
            mac_queried |-> m]
      ELSE None

\* Lines 369-388: db.select("oui_records", "oui = ? OR oui_hex = ?", (..))
\* binds the condition to columns and the pair of values to where; the
\* first row returned, if any, becomes the answer.  When the storage fails
\* (ok = FALSE) select logs the error and returns [] (sqlite_manager.py,
\* lines 240-242), or the handler of lines 390-392 returns None.
lookup_mac_select(t) ==
  /\ pc[t] = "select"
  /\ op[t] = "lookup_mac"
  /\ \E ok \in IoOutcomes :
       /\ io_failures' = io_count(ok)
       /\ query' = [query EXCEPT ![t] = IF ok THEN "ok" ELSE "error"]
       /\ result' = [result EXCEPT ![t] =
             IF ok THEN lookup_query(oui_records, mac[t]) ELSE None]
  /\ queried' = [queried EXCEPT ![t] = TRUE]
  /\ pc' = [pc EXCEPT ![t] = "done"]
  /\ UNCHANGED <<tables, now, op, force, mac, records, idx, pre, fetch,
                 writes, raised, updated, stats, search_args, aside>>

\* ---------------------------------------------------------- search_vendor
\* The characters of the model in code-point order, for ORDER BY.
Ascii ==
  <<"\t", "\n", " ", "#", "%", "(", ")", "-", ".",
    "0", "1", "2", "3", "4", "5", "6", "7", "8", "9", ":",
    "A", "B", "C", "D", "E", "F", "G", "H", "I", "J", "K", "L", "M",
    "N", "O", "P", "Q", "R", "S", "T", "U", "V", "W", "X", "Y", "Z", "_",
    "a", "b", "c", "d", "e", "f", "g", "h", "i", "j", "k", "l", "m",
    "n", "o", "p", "q", "r", "s", "t", "u", "v", "w", "x", "y", "z">>
ord(c) == CHOOSE i \in 1..Len(Ascii) : Ascii[i] = c

\* LIKE compares ASCII letters without regard to case.
lower_char(c) ==
  IF \E i \in 1..Len(UpperCase) : UpperCase[i] = c
  THEN Lower[CHOOSE i \in 1..Len(UpperCase) : UpperCase[i] = c]
  ELSE c

\* company_name LIKE pattern: % stands for any run of characters, _ for
\* any one character.
RECURSIVE like(_, _)
like(pattern, s) ==
  IF pattern = <<>> THEN s = <<>>
  ELSE IF Head(pattern) = "%"
  THEN like(Tail(pattern), s) \/ (s # <<>> /\ like(pattern, Tail(s)))
  ELSE IF s = <<>> THEN FALSE
  ELSE /\ Head(pattern) = "_" \/ lower_char(Head(pattern)) = lower_char(Head(s))
       /\ like(Tail(pattern), Tail(s))

RECURSIVE where_like(_, _)
where_like(rows, pattern) ==
  IF rows = <<>> THEN <<>>
  ELSE IF like(pattern, Head(rows).company_name)
  THEN <<Head(rows)>> \o where_like(Tail(rows), pattern)
  ELSE where_like(Tail(rows), pattern)

\* ORDER BY company_name, in the binary collation
RECURSIVE less(_, _)
less(a, b) ==
  IF b = <<>> THEN FALSE
  ELSE IF a = <<>> THEN TRUE
  ELSE IF Head(a) = Head(b) THEN less(Tail(a), Tail(b))
  ELSE ord(Head(a)) < ord(Head(b))

RECURSIVE insert_sorted(_, _)
insert_sorted(row, sorted) ==
  IF sorted = <<>> THEN <<row>>
  ELSE IF ~ less(Head(sorted).company_name, row.company_name)
  THEN <<row>> \o sorted
  ELSE <<Head(sorted)>> \o insert_sorted(row, Tail(sorted))

RECURSIVE order_by_company_name(_)
order_by_company_name(rows) ==
  IF rows = <<>> THEN <<>>
  ELSE insert_sorted(Head(rows), order_by_company_name(Tail(rows)))

\* "SELECT * FROM oui_records WHERE company_name LIKE ? ORDER BY
\* company_name LIMIT ?" with the bindings (f"%{vendor_name}%", limit)
search_query(rows, v, n) ==
  Take(order_by_company_name(where_like(rows, <<"%">> \o v \o <<"%">>)), n)

\* the dicts search_vendor builds from the rows (lines 438-446)
vendor_dicts(rows) ==
  [k \in 1..Len(rows) |->
     [oui |-> rows[k].oui, oui_hex |-> rows[k].oui_hex,
      vendor |-> rows[k].company_name, address |-> rows[k].company_address]]

\* The searches made: "vm", "zz" and "_" with the default limit, "e" with
\* limit 1.
SearchInputs ==
  {[vendor_name |-> <<"v", "m">>, limit |-> 10],
   [vendor_name |-> <<"z", "z">>, limit |-> 10],
   [vendor_name |-> <<"_">>, limit |-> 10],
   [vendor_name |-> <<"e">>, limit |-> 1]}

\* Lines 428-430: search_vendor calls update_cache() first.
call_search_vendor(t, v, n) ==
  /\ Callable(t)
  /\ \E dl \in Downloads : enter_update_cache(t, "search_vendor", FALSE, <<>>, dl)
  /\ vendor_name' = [vendor_name EXCEPT ![t] = v]
  /\ limit' = [limit EXCEPT ![t] = n]

\* search_vendor called from outside the HTTP handlers
search_vendor(t, v, n) == call_search_vendor(t, v, n) /\ UNCHANGED serving

\* Lines 432-450: the query and the list made of its rows.  execute_query
\* raises when the storage fails (ok = FALSE); the handler of lines 448-450
\* logs the error and returns [].
search_vendor_select(t) ==
  /\ pc[t] = "select"
  /\ op[t] = "search_vendor"
  /\ \E ok \in IoOutcomes :
       /\ io_failures' = io_count(ok)
       /\ query' = [query EXCEPT ![t] = IF ok THEN "ok" ELSE "error"]
       /\ result' = [result EXCEPT ![t] =
             [list |-> IF ok
                       THEN vendor_dicts(search_query(oui_records,
                                           vendor_name[t], limit[t]))
                       ELSE <<>>]]
  /\ queried' = [queried EXCEPT ![t] = TRUE]
  /\ pc' = [pc EXCEPT ![t] = "done"]
  /\ UNCHANGED <<tables, now, op, force, mac, records, idx, pre, fetch,
                 writes, raised, updated, stats, search_args, aside>>

\* -------------------------------------------------------- get_cache_stats
\* Is thread t inside _save_to_cache, after its DELETE was committed?
replacing(t) == pc[t] \in {"insert", "last_update", "total_records"}

\* Lines 459-480, called by a second thread while the first one refreshes:
\* total_records is db.count("oui_records"), last_update comes from the
\* same select call as in _needs_update.  The field during records the
\* replacement that was under way at that moment, if any: the sizes of the
\* set being replaced and of the set being written.
get_cache_stats(t) ==
  /\ Callable(t)
  /\ LET metadata == select(cache_metadata, Str("key = ?"),
                            Tup(<<"last_update">>), PyNone)
     IN  stats' = [stats EXCEPT ![t] =
           [called |-> TRUE,
            total_records |-> Len(oui_records),
            last_update |-> IF metadata # <<>> THEN <<metadata[1].value>>
                            ELSE <<>>,
            cache_age_days |->
              IF metadata # <<>>
              THEN <<now - fromisoformat(metadata[1].value)>>
              ELSE <<>>,
            needs_update |-> _needs_update,
            during |-> {[old |-> Len(pre[u].oui_records),
                         new |-> Len(records[u])] :
                          u \in {v \in Callers : replacing(v)}}]]
  /\ UNCHANGED <<tables, now, locals, io_failures, aside>>

\* ------------------------------------------------------------------ clock
\* The clock counts days and a call takes seconds: time moves on between
\* the calls, to one of the instants that matter for a 7-day limit.
Times ==
  {0, cache_duration_days - 1, cache_duration_days}
    \cup ((cache_duration_days + 1)..MaxNow)

Tick ==
  /\ \A t \in Callers : Callable(t)
  /\ \E d \in Times : d > now /\ now' = d
  /\ UNCHANGED <<tables, locals, io_failures, stats, aside>>

Next ==
  \/ \E t \in Callers, f \in BOOLEAN : update_cache(t, f)
  \/ \E t \in Callers, m \in MacInputs : lookup_mac(t, m)
  \/ \E t \in Callers : _save_to_cache_delete(t)
  \/ \E t \in Callers : _save_to_cache_insert(t)
  \/ \E t \in Callers : _save_to_cache_last_update(t)
  \/ \E t \in Callers : _save_to_cache_total_records(t)
  \/ \E t \in Callers : lookup_mac_select(t)
  \/ Tick

Spec == Init /\ [][Next]_vars

\* The same cache with a second thread that polls get_cache_stats while
\* the first one refreshes; the clock stands still.
NextPolled ==
  \/ \E t \in Callers, f \in BOOLEAN : update_cache(t, f)
  \/ \E t \in Callers : _save_to_cache_delete(t)
  \/ \E t \in Callers : _save_to_cache_insert(t)
  \/ \E t \in Callers : _save_to_cache_last_update(t)
  \/ \E t \in Callers : _save_to_cache_total_records(t)
  \/ \E t \in Monitors : get_cache_stats(t)

SpecPolled == Init /\ [][NextPolled]_vars

\* The cache used through its two query methods, with refreshes in
\* between; the clock stands still.
NextQueries ==
  \/ \E t \in Callers : update_cache(t, TRUE)
  \/ \E t \in Callers, m \in MacInputs : lookup_mac(t, m)
  \/ \E t \in Callers, a \in SearchInputs :
       search_vendor(t, a.vendor_name, a.limit)
  \/ \E t \in Callers : _save_to_cache_delete(t)
  \/ \E t \in Callers : _save_to_cache_insert(t)
  \/ \E t \in Callers : _save_to_cache_last_update(t)
  \/ \E t \in Callers : _save_to_cache_total_records(t)
  \/ \E t \in Callers : lookup_mac_select(t)
  \/ \E t \in Callers : search_vendor_select(t)

SpecQueries == Init /\ [][NextQueries]_vars

\* Two threads that each call update_cache(force=True) once, at any time
\* relative to each other (two requests served by a threaded server).
race_update_cache(t) == pc[t] = "idle" /\ update_cache(t, TRUE)

NextRace ==
  \/ \E t \in Threads : race_update_cache(t)
  \/ \E t \in Threads : _save_to_cache_delete(t)
  \/ \E t \in Threads : _save_to_cache_insert(t)
  \/ \E t \in Threads : _save_to_cache_last_update(t)
  \/ \E t \in Threads : _save_to_cache_total_records(t)

SpecRace == Init /\ [][NextRace]_vars

\* ------------------------------------------------------------ the HTTP API
\* A JSON number among the entries of a batch
Number(n) == [py |-> "int", v |-> n]
List(x) == [py |-> "list", v |-> x]

\* str(n) for a natural number: its decimal digits
RECURSIVE decimal(_)
decimal(n) ==
  IF n < 10 THEN <<Digits[n + 1]>>
  ELSE decimal(n \div 10) \o <<Digits[(n % 10) + 1]>>

\* str(mac) for an entry of the batch (line 606)
str_of(value) == IF value.py = "int" THEN decimal(value.v) ELSE value.v

HexAnyCase == HexChars \cup {"a", "b", "c", "d", "e", "f"}

\* ^[0-9A-Fa-f]{2}(sep[0-9A-Fa-f]{2}){5}$
six_pairs(s, sep) ==
  /\ Len(s) = 17
  /\ \A i \in 1..17 : IF i % 3 = 0 THEN s[i] = sep ELSE s[i] \in HexAnyCase

\* validate_mac_address that lets every address through
validate_mac_address_always(m) == TRUE

\* lines 231-241: one of the four patterns matches mac.strip()
validate_mac_address(m) ==
  LET s == strip(m)
  IN  \/ six_pairs(s, ":")
      \/ six_pairs(s, "-")
      \/ Len(s) = 12 /\ \A i \in 1..12 : s[i] \in HexAnyCase
      \/ six_pairs(s, ".")

\* line 595: the longest list api_batch_lookup accepts
MaxBatch == 1000
\* lines 486, 495: the default of limit, and the largest limit accepted
DefaultLimit == 10
MaxLimit == 100

\* the test of line 595 that refuses a list of MaxBatch entries too
too_many_from_cap(n) == n >= MaxBatch

\* line 595: len(mac_addresses) > 1000
too_many(n) == n > MaxBatch

\* The requests made.  /api/lookup/<mac_address>:
HttpLookups == {MacColon, MacDot, MacNotAMac}

\* /api/search with the arguments vendor and limit, None when absent
HttpSearches ==
  { [vendor |-> PyNone, limit |-> PyNone],
    [vendor |-> Str(<<" ", " ">>), limit |-> Str(<<"a", "b", "c">>)],
    [vendor |-> Str(<<" ", "v", "m">>), limit |-> Str(<<"-", "1">>)],
    [vendor |-> Str(<<"e">>), limit |-> Str(<<"1">>)] }

\* POST /api/batch: a body that is not JSON, or the value of mac_addresses
\* in the JSON body (None when the key is absent)
repeated(value, n) == [k \in 1..n |-> value]
HttpBatches ==
  { [is_json |-> FALSE, mac_addresses |-> PyNone],
    [is_json |-> TRUE, mac_addresses |-> PyNone],
    [is_json |-> TRUE, mac_addresses |-> Str(MacColon)],
    [is_json |-> TRUE, mac_addresses |-> List(<<>>)],
    [is_json |-> TRUE, mac_addresses |-> List(<<Str(MacNotAMac)>>)],
    [is_json |-> TRUE,
     mac_addresses |-> List(<<Str(MacDot), Str(MacPlain), Number(42),
                              Str(MacColon)>>)],
    [is_json |-> TRUE,
     mac_addresses |-> List(repeated(Number(42), MaxBatch))],
    [is_json |-> TRUE,
     mac_addresses |-> List(repeated(Number(42), MaxBatch + 1))] }

\* The handler answers without going to the cache.
answer_locally(rq, rp) ==
  /\ request' = rq
  /\ reply' = rp
  /\ handler' = "idle"
  /\ called' = <<>>
  /\ batch' = NoBatch
  /\ UNCHANGED <<oui_cache, tables, now, locals, io_failures, stats,
                 aside_of_call>>

\* lines 221-228: the handler gets the cache, constructed on first use
\* (the constructor opens the database and creates the tables that are
\* missing; it reads and writes no row)
Call(method, arg) == [method |-> method, arg |-> arg]
get_oui_cache == oui_cache' = "OUICache"

\* lines 444-455: /api/lookup until lookup_mac is called
api_lookup(t, m) ==
  /\ handler = "idle"
  /\ LET rq == [route |-> "lookup", mac_address |-> m]
     IN  IF ~ validate_mac_address(m)
         THEN answer_locally(rq, [status |-> 400, success |-> FALSE,
                                  error |-> "MAC address non valido"])
         ELSE /\ request' = rq
              /\ reply' = NoReply
              /\ handler' = "lookup"
              /\ get_oui_cache
              /\ called' = <<Call("lookup_mac", m)>>
              /\ batch' = NoBatch
              /\ call_lookup_mac(t, m)

\* lines 457-471: the answer made of what lookup_mac returned
api_lookup_return(t) ==
  /\ handler = "lookup"
  /\ pc[t] = "done"
  /\ reply' = IF result[t] # None
              THEN [status |-> 200, success |-> TRUE, found |-> result[t]]
              ELSE [status |-> 404, success |-> FALSE,
                    error |-> "Vendor non trovato"]
  /\ handler' = "idle"
  /\ UNCHANGED <<oui_cache, request, batch, called, tables, now, locals,
                 io_failures, stats, aside_of_call>>

\* lines 485-499: /api/search until search_vendor is called.  int() of a
\* limit that is no number raises and the handler of lines 508-516
\* answers 500.
api_search(t, a) ==
  /\ handler = "idle"
  /\ LET rq == [route |-> "search", vendor |-> a.vendor, limit |-> a.limit]
         name == IF a.vendor.py = "None" THEN <<>> ELSE strip(a.vendor.v)
         n == IF a.limit.py = "None" THEN DefaultLimit ELSE int(a.limit.v)
     IN  IF a.limit.py # "None" /\ int_raises(a.limit.v)
         THEN answer_locally(rq, [status |-> 500, success |-> FALSE,
                                  error |-> "Errore interno del server"])
         ELSE IF name = <<>>
         THEN answer_locally(rq, [status |-> 400, success |-> FALSE,
                                  error |-> "Parametro vendor mancante"])
         ELSE /\ request' = rq
              /\ reply' = NoReply
              /\ handler' = "search"
              /\ get_oui_cache
              /\ batch' = NoBatch
              /\ LET capped == IF n < 1 \/ n > MaxLimit THEN DefaultLimit
                               ELSE n
                 IN  /\ called' = <<Call("search_vendor", name)>>
                     /\ call_search_vendor(t, name, capped)

\* lines 501-506
api_search_return(t) ==
  /\ handler = "search"
  /\ pc[t] = "done"
  /\ reply' = [status |-> 200, success |-> TRUE,
               results |-> result[t].list, count |-> Len(result[t].list)]
  /\ handler' = "idle"
  /\ UNCHANGED <<oui_cache, request, batch, called, tables, now, locals,
                 io_failures, stats, aside_of_call>>

\* lines 580-603: /api/batch until the loop starts
api_batch_lookup(t, b) ==
  /\ handler = "idle"
  /\ LET rq == [route |-> "batch", is_json |-> b.is_json,
                mac_addresses |-> b.mac_addresses]
         mac_addresses == IF b.mac_addresses.py = "None" THEN List(<<>>)
                          ELSE b.mac_addresses
     IN  IF ~ b.is_json
         THEN answer_locally(rq, [status |-> 400, success |-> FALSE,
                 error |-> "Content-Type deve essere application/json"])
         ELSE IF mac_addresses.py # "list" \/ mac_addresses.v = <<>>
         THEN answer_locally(rq, [status |-> 400, success |-> FALSE,
                 error |-> "Array mac_addresses richiesto e non vuoto"])
         ELSE IF too_many(Len(mac_addresses.v))
         THEN answer_locally(rq, [status |-> 400, success |-> FALSE,
                 error |-> "Massimo 1000 MAC addresses per batch"])
         ELSE /\ request' = rq
              /\ reply' = NoReply
              /\ handler' = "batch"
              /\ get_oui_cache
              /\ batch' = NoBatch
              /\ called' = <<>>
              /\ UNCHANGED <<tables, now, locals, io_failures, stats,
                             aside_of_call>>

\* lines 623-628: the result for an entry that is no address
invalid_result(value) ==
  [mac |-> value, found |-> FALSE, error |-> "MAC address non valido"]

\* lines 605-640: the loop from the entry it stands at.  The entries that
\* are no address are answered one after the other (they touch nothing but
\* results) up to the next entry that is one: lookup_mac is called for it;
\* without such an entry the loop ends and the answer is made.
batch_loop(t) ==
  /\ handler = "batch"
  /\ LET entries == request.mac_addresses.v
         done == Len(batch.results)
         valid == {k \in (done + 1)..Len(entries) :
                     validate_mac_address(str_of(entries[k]))}
         stop == IF valid = {} THEN Len(entries) + 1
                 ELSE CHOOSE k \in valid : \A j \in valid : k <= j
         results == batch.results
                      \o [k \in 1..(stop - 1 - done) |->
                            invalid_result(entries[done + k])]
     IN  /\ batch' = [batch EXCEPT !.results = results]
         /\ IF stop > Len(entries)
            THEN /\ reply' =
                      [status |-> 200, success |-> TRUE, results |-> results,
                       summary |->
                         [total |-> Len(entries),
                          found |-> batch.found_count,
                          not_found |-> Len(entries) - batch.found_count]]
                 /\ handler' = "idle"
                 /\ UNCHANGED <<called, tables, now, locals, io_failures,
                                stats, aside_of_call>>
            ELSE /\ handler' = "batch_lookup"
                 /\ called' = Append(called, Call("lookup_mac",
                                                  str_of(entries[stop])))
                 /\ call_lookup_mac(t, str_of(entries[stop]))
                 /\ UNCHANGED reply
  /\ UNCHANGED <<oui_cache, request>>

\* lines 607-622: the result made of what lookup_mac returned
batch_collect(t) ==
  /\ handler = "batch_lookup"
  /\ pc[t] = "done"
  /\ LET value == request.mac_addresses.v[Len(batch.results) + 1]
     IN  batch' =
           IF result[t] # None
           THEN [results |-> Append(batch.results,
                               [mac |-> value, found |-> TRUE,
                                vendor |-> result[t]]),
                 found_count |-> batch.found_count + 1]
           ELSE [results |-> Append(batch.results,
                               [mac |-> value, found |-> FALSE,
                                error |-> "Vendor non trovato"]),
                 found_count |-> batch.found_count]
  /\ handler' = "batch"
  /\ UNCHANGED <<oui_cache, request, reply, called, tables, now, locals,
                 io_failures, stats, aside_of_call>>

\* The server handles one request at a time; the calls of the cache run
\* their steps in between.
NextHttp ==
  \/ \E t \in Callers, m \in HttpLookups : api_lookup(t, m)
  \/ \E t \in Callers : api_lookup_return(t)
  \/ \E t \in Callers, a \in HttpSearches : api_search(t, a)
  \/ \E t \in Callers : api_search_return(t)
  \/ \E t \in Callers, b \in HttpBatches : api_batch_lookup(t, b)
  \/ \E t \in Callers : batch_loop(t)
  \/ \E t \in Callers : batch_collect(t)
  \/ \E t \in Callers : _save_to_cache_delete(t)
  \/ \E t \in Callers : _save_to_cache_insert(t)
  \/ \E t \in Callers : _save_to_cache_last_update(t)
  \/ \E t \in Callers : _save_to_cache_total_records(t)
  \/ \E t \in Callers : lookup_mac_select(t)
  \/ \E t \in Callers : search_vendor_select(t)

SpecHttp == Init /\ [][NextHttp]_vars

\* ------------------------------------------- the parser, line by line
\* The lines the texts below are made of.  kind says how the line was
\* built: "hex" and "base16" from digits, a gap, the tag and a name,
\* "other" from a body with whitespace around it, "blank", "comment".
hex_line(oui, name) ==
  [kind |-> "hex", digits |-> oui, body |-> name,
   raw |-> oui \o <<" ", " ", " ">> \o HexTag \o <<"\t", "\t">> \o name]
base16_line(digits, gap, name) ==
  [kind |-> "base16", digits |-> digits, body |-> name,
   raw |-> digits \o gap \o Base16Tag \o <<"\t", "\t">> \o name]
other_line(body) ==
  [kind |-> "other", digits |-> <<>>, body |-> body,
   raw |-> <<"\t", "\t", "\t", "\t">> \o body \o <<" ">>]

LongName == [i \in 1..LongNameLen |-> UpperCase[(i % 26) + 1]]
LongAddress == [i \in 1..LongAddressLen |-> Lower[(i % 26) + 1]]

FeedLines ==
  <<hex_line(<<"0", "0", "-", "5", "0", "-", "5", "6">>, <<"V", "M">>),
    hex_line(<<"0", "0", "-", "1", "B", "-", "2", "1">>, LongName),
    base16_line(<<"0", "0", "5", "0", "5", "6">>,
                <<" ", " ", " ", " ", " ">>,
                <<"V", "M", "w", "a", "r", "e">>),
    base16_line(<<"A", "B", "C", "D", "E", "F">>, <<>>, <<"X", "Y">>),
    other_line(<<"P", "a", "l", "o", " ", "A", "l", "t", "o">>),
    other_line(LongAddress),
    [kind |-> "blank", digits |-> <<>>, body |-> <<>>, raw |-> <<" ", " ">>],
    [kind |-> "comment", digits |-> <<>>, body |-> <<>>,
     raw |-> <<"#", " ", "U", "S">>]>>

\* Longer texts: two and three whole blocks (hex, base 16, address), the
\* same block twice, and a record whose address lines are separated by a
\* blank line and a comment.
BlockFeeds ==
  {<<1, 3, 5, 2, 4, 6>>, <<1, 3, 5, 1, 3, 5>>, <<2, 4, 6, 1, 3, 5, 1, 4, 5>>,
   <<1, 5, 7, 8, 5>>}

\* The texts parsed: every sequence of at most MaxFeed of these lines, and
\* the longer ones.
Feeds == UNION {[1..n -> 1..Len(FeedLines)] : n \in 0..MaxFeed} \cup BlockFeeds

\* the content handed to _parse_oui_content: the lines joined by newlines
RECURSIVE content_of(_)
content_of(ids) ==
  IF ids = <<>> THEN <<>>
  ELSE IF Len(ids) = 1 THEN FeedLines[ids[1]].raw
  ELSE FeedLines[ids[1]].raw \o <<"\n">> \o content_of(Tail(ids))

\* A call of _parse_oui_content(content) is about to start.
InitParser ==
  /\ CacheInit
  /\ ElsewhereIdle
  /\ ServingIdle
  /\ DownloadIdle
  /\ ExtractIdle
  /\ feed \in Feeds
  /\ feed_lines = <<>>
  /\ line_no = 0
  /\ parser = [records |-> <<>>, current_record |-> EmptyRecord]
  /\ cleaned_records = <<>>
  /\ parser_pc = "start"

\* line 168: lines = content.split('\n')
parse_split ==
  /\ parser_pc = "start"
  /\ feed_lines' = split_lines(content_of(feed))
  /\ parser_pc' = "loop"
  /\ UNCHANGED <<outside_parser, feed, line_no,
                 parser, cleaned_records>>

\* lines 174-211: one iteration of the loop
parse_step ==
  /\ parser_pc = "loop"
  /\ line_no < Len(feed_lines)
  /\ parser' = parse_line(parser, feed_lines[line_no + 1])
  /\ line_no' = line_no + 1
  /\ UNCHANGED <<outside_parser, feed, feed_lines,
                 cleaned_records, parser_pc>>

\* the return without lines 213-215
parse_return_without_last ==
  /\ parser_pc = "loop"
  /\ line_no = Len(feed_lines)
  /\ cleaned_records' = clean_records(parser.records)
  /\ parser_pc' = "returned"
  /\ UNCHANGED <<outside_parser, feed, feed_lines,
                 line_no, parser>>

\* lines 213-232: the last record is appended, the records are cleaned
\* and returned
parse_return ==
  /\ parser_pc = "loop"
  /\ line_no = Len(feed_lines)
  /\ LET flushed == IF parser.current_record.oui # <<>>
                    THEN Append(parser.records, parser.current_record)
                    ELSE parser.records
     IN  /\ parser' = [parser EXCEPT !.records = flushed]
         /\ cleaned_records' = clean_records(flushed)
  /\ parser_pc' = "returned"
  /\ UNCHANGED <<outside_parser, feed, feed_lines,
                 line_no>>

NextParser == parse_split \/ parse_step \/ parse_return

SpecParser == InitParser /\ [][NextParser]_vars

\* ------------------------------------------- _extract_oui, address by address
\* The ways an address is written: its hexadecimal digits, in groups of
\* group digits joined by sep (no separator when sep is <<>>), in upper or
\* in lower case.
MacDigits ==
  { <<"0", "0", "5", "0", "5", "6", "1", "2", "3", "4", "5", "6">>,
    <<"0", "0", "5", "0", "5", "6", "A", "B", "C", "D", "E", "F">>,
    <<"A", "B", "C", "D", "E", "F", "0", "1", "2", "3", "4", "5">> }

Styles ==
  { [sep |-> <<":">>, group |-> 2], [sep |-> <<"-">>, group |-> 2],
    [sep |-> <<".">>, group |-> 2], [sep |-> <<".">>, group |-> 4],
    [sep |-> <<>>, group |-> 2] }

RECURSIVE lower(_)
lower(s) == IF s = <<>> THEN <<>> ELSE <<lower_char(Head(s))>> \o lower(Tail(s))

RECURSIVE grouped(_, _, _)
grouped(digits, sep, group) ==
  IF Len(digits) <= group THEN digits
  ELSE SubSeq(digits, 1, group) \o sep
         \o grouped(SubSeq(digits, group + 1, Len(digits)), sep, group)

Writings ==
  [digits : {Take(d, n) : d \in MacDigits, n \in MinMacHex..MaxMacHex},
   style : Styles, lowered : BOOLEAN]

written(w) ==
  LET g == grouped(w.digits, w.style.sep, w.style.group)
  IN  IF w.lowered THEN lower(g) ELSE g

Addresses == {written(w) : w \in Writings}

\* A call of _extract_oui(mac_address) is about to start.
InitExtract ==
  /\ CacheInit
  /\ ElsewhereIdle
  /\ ServingIdle
  /\ ParserIdle
  /\ DownloadIdle
  /\ extract_address \in Addresses
  /\ extracted = <<>>
  /\ extract_pc = "start"

\* lines 404-415
extract_oui ==
  /\ extract_pc = "start"
  /\ extracted' = _extract_oui(extract_address)
  /\ extract_pc' = "returned"
  /\ UNCHANGED <<outside_extract, extract_address>>

NextExtract == extract_oui

SpecExtract == InitExtract /\ [][NextExtract]_vars

\* ================================================================ claims
\* What a call was made on and what it has done so far.
Returned(t) == pc[t] = "done" /\ op[t] = "update_cache"
Populated(t) == Len(pre[t].oui_records) >= 1
Untouched(t) ==
  /\ oui_records = pre[t].oui_records
  /\ cache_metadata = pre[t].cache_metadata

\* update_cache has run in the current call of t, directly or from lookup_mac
UpdateCalled(t) ==
  \/ op[t] = "update_cache"
  \/ op[t] = "lookup_mac" /\ prefix_of[mac[t]] # <<>>
  \/ op[t] = "search_vendor"

\* The value stored under a metadata key, <<v>>, or <<>> without such a row.
RECURSIVE metadata_value(_, _)
metadata_value(rows, key) ==
  IF rows = <<>> THEN <<>>
  ELSE IF Head(rows).key = key THEN <<Head(rows).value>>
  ELSE metadata_value(Tail(rows), key)

\* Staleness as the rule states it, on the tables a call started from:
\* no last_update, an age above cache_duration_days, or an empty store.
Stale(t) ==
  LET last == metadata_value(pre[t].cache_metadata, "last_update")
  IN  \/ last = <<>>
      \/ pre[t].now - fromisoformat(last[1]) > cache_duration_days
      \/ Len(pre[t].oui_records) = 0

\* C1: a store that held at least one vendor record before a call of
\* update_cache still holds at least one when the call has returned,
\* whatever fetch and write failures happened.
C1_NeverEmptied ==
  \A t \in Callers :
    (Returned(t) /\ Populated(t)) => Len(oui_records) >= 1

\* C2: update_cache(force=True) on a populated store, with every mirror
\* failing, returns False and leaves the records and the metadata rows
\* exactly as they were.
C2_FailedFetchKeepsStore ==
  \A t \in Callers :
    (Returned(t) /\ force[t] /\ fetch[t] = "failed" /\ Populated(t))
      => updated[t] = "False" /\ Untouched(t)

C2_Witness ==
  \E t \in Callers :
    /\ Returned(t) /\ force[t] /\ fetch[t] = "failed" /\ Populated(t)
    /\ metadata_value(cache_metadata, "last_update") # <<>>

\* C3: when the fetched text parses to no record, update_cache returns
\* False and issues neither the DELETE nor an insert nor a metadata write.
C3_EmptyParseWritesNothing ==
  \A t \in Callers :
    (UpdateCalled(t) /\ updated[t] # "none"
       /\ fetch[t] = "ok" /\ records[t] = <<>>)
      => updated[t] = "False" /\ writes[t] = {} /\ Untouched(t)

C3_Witness ==
  \E t \in Callers :
    /\ Returned(t) /\ fetch[t] = "ok" /\ records[t] = <<>>
    /\ Populated(t)

\* C4: when _save_to_cache has ended, either the store holds exactly the
\* new records with last_update and total_records written, or the records
\* and the metadata are as they were before the call.
C4_SaveAllOrNothing ==
  \A t \in Callers :
    (UpdateCalled(t) /\ updated[t] # "none" /\ records[t] # <<>>)
      => \/ /\ oui_records = records[t]
            /\ metadata_value(cache_metadata, "last_update")
                 = <<isoformat(pre[t].now)>>
            /\ metadata_value(cache_metadata, "total_records")
                 = <<str(Len(records[t]))>>
         \/ Untouched(t)

\* C5: a reader that counts the records while a populated store is being
\* replaced sees the old set or the new set, never an empty or a partly
\* filled table.
C5_ReaderSeesWholeSet ==
  \A t \in Monitors :
    stats[t].called =>
      \A d \in stats[t].during :
        d.old >= 1 => stats[t].total_records \in {d.old, d.new}

\* C6: update_cache(force=False) on a store that is not stale (last_update
\* present, at most cache_duration_days old, at least one record) calls no
\* fetcher, returns False and changes nothing.
C6_FreshStoreNotFetched ==
  \A t \in Callers :
    (Returned(t) /\ ~ force[t] /\ ~ Stale(t))
      => fetch[t] = "not_called" /\ updated[t] = "False" /\ Untouched(t)

\* C7: update_cache attempts a fetch whenever force is true and, without
\* force, whenever the store is stale.
C7_StaleOrForcedFetches ==
  \A t \in Callers :
    (UpdateCalled(t) /\ pc[t] # "idle" /\ (force[t] \/ Stale(t)))
      => fetch[t] # "not_called"

\* a store that has records and is stale by age alone, refreshed without force
C7_Witness ==
  \E t \in Callers :
    /\ Returned(t) /\ ~ force[t] /\ Populated(t)
    /\ metadata_value(pre[t].cache_metadata, "last_update") # <<>>
    /\ Stale(t)
    /\ fetch[t] # "not_called"

\* C8: lookup_mac on an address whose prefix is stored returns that record
\* (prefix, vendor, address) with the address as it was queried, whatever
\* the spelling of the address.
C8_StoredPrefixFound ==
  \A t \in Callers :
    (pc[t] = "done" /\ op[t] = "lookup_mac" /\ prefix_of[mac[t]] # <<>>)
      => \A k \in 1..Len(oui_records) :
           oui_records[k].oui = prefix_of[mac[t]]
             => /\ result[t].found
                /\ result[t].oui = oui_records[k].oui
                /\ result[t].vendor = oui_records[k].company_name
                /\ result[t].address = oui_records[k].company_address
                /\ result[t].mac_queried = mac[t]

\* The address with ':', '-', '.' removed and upper-cased, and the same
\* after its leading and trailing whitespace has been trimmed.
unseparated(s) ==
  remove_char(remove_char(remove_char(upper(s), ":"), "-"), ".")
trimmed_unseparated(s) == unseparated(strip(s))

RejectedAtOnce(t) ==
  /\ pc[t] = "done"
  /\ ~ result[t].found
  /\ updated[t] = "none"
  /\ fetch[t] = "not_called"
  /\ ~ queried[t]

C10_CountIsParsedCount ==
  \A t \in Callers :
    (UpdateCalled(t) /\ updated[t] = "True")
      => /\ Len(oui_records) = Len(records[t])
         /\ \A k \in 1..Len(oui_records) :
              \E j \in 1..Len(records[t]) :
                oui_records[k] = records[t][j]

\* The rows of a table or of a parsed list, as a set.
Rows(rs) == {rs[k] : k \in 1..Len(rs)}
DistinctPrefixes(rs) ==
  \A j, k \in 1..Len(rs) : rs[j].oui = rs[k].oui => j = k

\* a call of update_cache that replaced the store without any failed statement
Replaced(t) ==
  /\ pc[t] = "done" /\ op[t] = "update_cache"
  /\ updated[t] = "True" /\ ~ raised[t]
  /\ DistinctPrefixes(records[t])

\* C11: when two update_cache calls with replacement sets A and B have
\* both finished, the store holds exactly A or exactly B: no mixture of
\* the two, no strict subset, no empty store.
C11_LastWriteWins ==
  (\A t \in Threads : Replaced(t))
    => \E t \in Threads : Rows(oui_records) = Rows(records[t])

\* a query method of the cache has returned to its caller
Answered(t) == pc[t] = "done" /\ op[t] \in {"lookup_mac", "search_vendor"}

\* C12: when the storage fails while lookup_mac or search_vendor queries
\* it, the caller gets a failure, something else than the None of "not
\* found" and than the empty list.
C12_StorageFailureReported ==
  \A t \in Callers :
    (Answered(t) /\ query[t] = "error")
      => result[t] \notin {None, [list |-> <<>>]}

\* update_cache returned False because the fetch or the parse failed
RefreshFailed(t) ==
  /\ UpdateCalled(t) /\ updated[t] = "False"
  /\ fetch[t] = "failed" \/ (fetch[t] = "ok" /\ records[t] = <<>>)

\* what the query of the method gives on the table rows
QueryOn(t, rows) ==
  IF op[t] = "lookup_mac" THEN lookup_query(rows, mac[t])
  ELSE [list |-> vendor_dicts(search_query(rows, vendor_name[t], limit[t]))]

\* C13: when the refresh attempted by lookup_mac or search_vendor fails
\* (fetch or parse), the call still queries the store and answers from the
\* records that were there, as if no refresh had been attempted.
C13_FailedRefreshIgnored ==
  \A t \in Callers :
    (Answered(t) /\ RefreshFailed(t) /\ query[t] # "error")
      => /\ query[t] = "ok"
         /\ Untouched(t)
         /\ result[t] = QueryOn(t, pre[t].oui_records)

C13_Witness ==
  \E t \in Callers :
    /\ Answered(t) /\ RefreshFailed(t) /\ query[t] = "ok"
    /\ op[t] = "search_vendor"
    /\ result[t].list # <<>>

\* The lines of the text being parsed, as they were built.
kind(k) == FeedLines[feed[k]].kind
hex_lines(n) == {k \in 1..Len(feed) : k <= n /\ kind(k) = "hex"}
\* the position of the j-th hex line, and of the last line of its block
hex_position(j) ==
  CHOOSE k \in hex_lines(Len(feed)) : Cardinality(hex_lines(k)) = j
block_end(j) ==
  IF j = Cardinality(hex_lines(Len(feed))) THEN Len(feed)
  ELSE hex_position(j + 1) - 1

\* C14: the parser returns one record per line of the form "XX-XX-XX
\* (hex) name", in the order of the lines and without merging equal
\* prefixes; inside the loop every hex line but the last met is already in
\* the list and the last one is the open record.
C14_OneRecordPerHexLine ==
  /\ parser_pc = "loop" =>
       LET met == hex_lines(line_no)
       IN  /\ Len(parser.records) = IF met = {} THEN 0 ELSE Cardinality(met) - 1
           /\ met # {} =>
                parser.current_record.oui = FeedLines[feed[hex_position(Cardinality(met))]].digits
  /\ parser_pc = "returned" =>
       /\ Len(cleaned_records) = Cardinality(hex_lines(Len(feed)))
       /\ \A j \in 1..Len(cleaned_records) :
            cleaned_records[j].oui = FeedLines[feed[hex_position(j)]].digits

\* two whole blocks with the same prefix give two records
C14_Witness ==
  /\ parser_pc = "returned"
  /\ Len(cleaned_records) = 2
  /\ cleaned_records[1].oui = cleaned_records[2].oui
  /\ Len(feed) = 6

\* C15: a base 16 line met while a record is open sets the record's
\* oui_hex to the six digits of the line and replaces company_name only
\* when the name of the line is strictly longer than the one held; nothing
\* else changes.
C15_Base16Line ==
  [][LET k == line_no + 1
         held == parser.current_record
     IN  (/\ parser_pc = "loop" /\ line_no' = k /\ k <= Len(feed)
          /\ kind(k) = "base16" /\ held.oui # <<>>)
           => /\ parser'.records = parser.records
              /\ parser'.current_record =
                   [held EXCEPT
                      !.oui_hex = FeedLines[feed[k]].digits,
                      !.company_name =
                         IF Len(FeedLines[feed[k]].body) > Len(@)
                         THEN FeedLines[feed[k]].body ELSE @]]_vars

\* a base 16 line with a name as long as the one held has been read
C15_Witness ==
  /\ parser_pc = "loop" /\ line_no >= 2 /\ line_no <= Len(feed)
  /\ kind(line_no) = "base16" /\ kind(line_no - 1) = "hex"
  /\ Len(FeedLines[feed[line_no]].body) = Len(FeedLines[feed[line_no - 1]].body)
  /\ parser.current_record.company_name = FeedLines[feed[line_no - 1]].body
  /\ parser.current_record.oui_hex = FeedLines[feed[line_no]].digits

\* "XX-XX-XX" without its dashes
undashed(oui) == <<oui[1], oui[2], oui[4], oui[5], oui[7], oui[8]>>

\* C16: in every record returned by the parser and in every record of the
\* store, oui_hex is oui without its dashes, whatever digits the base 16
\* line of the record carries.
C16_HexDerivedFromPrefix ==
  /\ parser_pc = "returned" =>
       \A j \in 1..Len(cleaned_records) :
         cleaned_records[j].oui_hex = undashed(cleaned_records[j].oui)
  /\ \A k \in 1..Len(oui_records) :
       oui_records[k].oui_hex = undashed(oui_records[k].oui)

\* the block of the j-th hex line has no base 16 line
NoBase16(j) ==
  \A k \in (hex_position(j) + 1)..block_end(j) : kind(k) # "base16"

\* C17: a record with a hex line and no base 16 line gets as oui_hex its
\* prefix without the dashes.
C17_HexDerivedWhenMissing ==
  parser_pc = "returned" =>
    \A j \in 1..Cardinality(hex_lines(Len(feed))) :
      NoBase16(j) =>
        /\ j <= Len(cleaned_records)
        /\ cleaned_records[j].oui_hex
             = undashed(FeedLines[feed[hex_position(j)]].digits)

C17_Witness ==
  /\ parser_pc = "returned"
  /\ \E j \in 1..Cardinality(hex_lines(Len(feed))) :
       /\ NoBase16(j)
       /\ block_end(j) > hex_position(j)
       /\ j <= Len(cleaned_records)
       /\ cleaned_records[j].oui_hex = <<"0", "0", "5", "0", "5", "6">>

\* the bodies of the "other" lines among lines a..b, joined by spaces
RECURSIVE joined_bodies(_, _)
joined_bodies(a, b) ==
  IF a > b THEN <<>>
  ELSE IF kind(b) # "other" THEN joined_bodies(a, b - 1)
  ELSE IF joined_bodies(a, b - 1) = <<>> THEN FeedLines[feed[b]].body
  ELSE joined_bodies(a, b - 1) \o <<" ">> \o FeedLines[feed[b]].body

\* lines read so far, and the last hex line among them
read_lines == IF line_no <= Len(feed) THEN line_no ELSE Len(feed)
last_hex == hex_position(Cardinality(hex_lines(read_lines)))

AddressOfOpenRecord ==
  (parser_pc = "loop" /\ hex_lines(read_lines) # {})
    => parser.current_record.company_address
         = joined_bodies(last_hex + 1, read_lines)

BlankOrCommentStep ==
  LET k == line_no + 1
  IN  (/\ parser_pc = "loop" /\ line_no' = k /\ k <= Len(feed)
       /\ kind(k) \in {"blank", "comment"})
        => parser' = parser

\* C18: the address of the open record is made of the lines read since its
\* hex line that are neither hex, base 16, blank nor '#' lines, in order
\* and joined by one space (empty when there is none); a blank line or a
\* '#' line changes nothing in the parser.
C18_AddressLines == []AddressOfOpenRecord /\ [][BlankOrCommentStep]_vars

\* two address lines with a blank line and a comment between them
C18_Witness ==
  /\ parser_pc = "loop" /\ line_no = 5 /\ Len(feed) = 5
  /\ kind(1) = "hex" /\ kind(2) = "other" /\ kind(3) = "blank"
  /\ kind(4) = "comment" /\ kind(5) = "other"
  /\ parser.current_record.company_address
       = FeedLines[feed[2]].body \o <<" ">> \o FeedLines[feed[5]].body

\* C19: before the first hex line, a base 16 line or any other line makes
\* no record and leaves no trace: the parser is as it started, and a text
\* without hex line gives no record.
C19_IdleIgnoresLines ==
  /\ (parser_pc = "loop" /\ hex_lines(read_lines) = {})
       => parser = [records |-> <<>>, current_record |-> EmptyRecord]
  /\ (parser_pc = "returned" /\ hex_lines(Len(feed)) = {})
       => cleaned_records = <<>>

C19_Witness ==
  /\ parser_pc = "loop" /\ line_no = 2 /\ Len(feed) >= 2
  /\ kind(1) = "base16" /\ kind(2) = "other"

\* C20: every record returned has the first 255 characters of its name
\* and the first 500 characters of its address, or all of them when there
\* are fewer.
C20_FieldsTruncated ==
  parser_pc = "returned" =>
    /\ Len(cleaned_records) = Len(parser.records)
    /\ \A j \in 1..Len(cleaned_records) :
         LET whole == parser.records[j]
             cut == cleaned_records[j]
         IN  /\ Len(cut.company_name) =
                  IF Len(whole.company_name) > 255 THEN 255
                  ELSE Len(whole.company_name)
             /\ cut.company_name
                  = SubSeq(whole.company_name, 1, Len(cut.company_name))
             /\ Len(cut.company_address) =
                  IF Len(whole.company_address) > 500 THEN 500
                  ELSE Len(whole.company_address)
             /\ cut.company_address
                  = SubSeq(whole.company_address, 1, Len(cut.company_address))

C20_Witness ==
  /\ parser_pc = "returned"
  /\ \E j \in 1..Len(cleaned_records) :
       /\ Len(parser.records[j].company_name) > 255
       /\ Len(parser.records[j].company_address) > 500
       /\ Len(cleaned_records[j].company_name) = 255
       /\ Len(cleaned_records[j].company_address) = 500


\* ---- the mirrors
ReturnedText == download_pc = "returned" /\ downloaded.ok
ReturnedNone == download_pc = "returned" /\ ~downloaded.ok
last_contacted == contacted[Len(contacted)]

\* C21: the mirrors are contacted in the order of the list; a mirror is
\* contacted only after every earlier one has failed, and the text returned
\* is that of the last mirror contacted, so that no mirror after the first
\* one that passes is ever contacted.
C21_MirrorsInOrder ==
  /\ \A k \in 1..Len(contacted) :
        /\ contacted[k] = k
        /\ k < Len(contacted) => attempt(responses[k]) = "continue"
  /\ ReturnedText =>
        /\ contacted # <<>>
        /\ attempt(responses[last_contacted]) = "return"
        /\ downloaded.text = responses[last_contacted].text

\* the second mirror answered after the first failed, and the third, which
\* would have passed too, was never asked
C21_Witness ==
  /\ ReturnedText
  /\ contacted = <<1, 2>>
  /\ attempt(responses[3]) = "return"

\* C22: whatever makes a mirror fail, the next one is tried: None is
\* returned only after all of them were contacted and failed, a text is
\* returned as soon as one passes, and the store is not written.
C22_FailureTriesNext ==
  /\ ReturnedNone =>
        /\ contacted = <<1, 2, 3>>
        /\ \A k \in 1..3 : attempt(responses[k]) = "continue"
  /\ (download_pc = "returned"
        /\ \E k \in 1..3 : attempt(responses[k]) = "return") => ReturnedText
  /\ \A t \in Threads : Untouched(t) /\ writes[t] = {}

\* a timeout, a declared length that is too small and a page without the
\* markers, one after the other
C22_Witness ==
  /\ ReturnedNone
  /\ responses[1].raises = "get"
  /\ responses[2].content_length = Str(<<"9", "9", "9", "9", "9", "9">>)
  /\ responses[3].text = TextOneMarker

\* C23 as stated: the text returned is that of a response with a 2xx
\* status, a content-length header absent or at least 1,000,000, and both
\* markers in its body.
declared_length_ok(header) ==
  \/ header = PyNone
  \/ /\ header.py = "str"
     /\ ~int_raises(header.v)
     /\ int(header.v) >= 1000000
has_markers(body) ==
  /\ py_in(<<"O", "U", "I", "/", "M", "A", "-", "L">>, body)
  /\ py_in(<<"O", "r", "g", "a", "n", "i", "z", "a", "t", "i", "o", "n">>,
           body)
C23_ReturnedPassedChecks ==
  ReturnedText =>
    LET r == responses[last_contacted]
    IN  /\ r.raises = "none"
        /\ r.status_code >= 200 /\ r.status_code < 300
        /\ declared_length_ok(r.content_length)
        /\ has_markers(r.text)
        /\ downloaded.text = r.text

\* C23, amended: the text returned is that of a response whose status is
\* not a 4xx or 5xx error, whose content-length header is absent, empty or
\* at least 1,000,000, and whose body holds both markers.
C23_ReturnedPassedChecksAmended ==
  ReturnedText =>
    LET r == responses[last_contacted]
    IN  /\ r.raises = "none"
        /\ r.status_code < 400 \/ r.status_code >= 600
        /\ \/ declared_length_ok(r.content_length)
           \/ r.content_length = Str(<<>>)
        /\ has_markers(r.text)
        /\ downloaded.text = r.text

\* a text is returned after a mirror with one marker only was passed over
C23_Witness ==
  /\ ReturnedText
  /\ Len(contacted) >= 2
  /\ responses[1].text = TextOneMarker
  /\ responses[1].status_code = 200


\* ---- the metadata of a refresh
\* C24: after a refresh that update_cache reports successful, the metadata
\* row total_records holds count() of the vendor table and the row
\* last_update holds the time of that refresh.
C24_MetadataMatchesStore ==
  \A t \in Callers :
    (UpdateCalled(t) /\ fetch[t] = "ok" /\ updated[t] = "True")
      => /\ metadata_value(cache_metadata, "total_records")
              = <<str(Len(oui_records))>>
         /\ metadata_value(cache_metadata, "last_update")
              = <<isoformat(pre[t].now)>>


\* C25: once the last refresh has succeeded, get_cache_stats reports the
\* time of that refresh as last_update and the days since then as
\* cache_age_days.
C25_StatsReportLastRefresh ==
  [][\A t \in Monitors :
       stats'[t] # stats[t] =>
         \A u \in Callers :
           (Returned(u) /\ UpdateCalled(u) /\ fetch[u] = "ok"
              /\ updated[u] = "True")
             => /\ stats'[t].last_update = <<isoformat(pre[u].now)>>
                /\ stats'[t].cache_age_days = <<now - pre[u].now>>]_vars


\* C26: whatever two refreshes do, one after the other or at the same
\* time, no two rows of the vendor table carry the same prefix.
C26_PrefixUnique == DistinctPrefixes(oui_records)

\* a refresh whose own records differ in their prefixes had an insert
\* refused although the storage never failed: the other refresh had stored
\* that prefix
C26_Witness ==
  /\ io_failures = 0
  /\ \E t \in Threads :
       /\ raised[t]
       /\ DistinctPrefixes(records[t])
       /\ Len(oui_records) >= 1


\* ---- search_vendor
\* name occurs in s, letter case set aside
contains_ci(name, s) ==
  \E k \in 0..(Len(s) - Len(name)) :
    \A i \in 1..Len(name) : lower_char(s[k + i]) = lower_char(name[i])

\* C27: when its query succeeds search_vendor(name, limit) returns at most
\* limit records, each with a vendor that contains name whatever the letter
\* case, in ascending order of vendor, and they are the first limit of the
\* stored records that contain name.
C27_SearchFirstMatches ==
  \A t \in Callers :
    (Answered(t) /\ op[t] = "search_vendor" /\ query[t] = "ok") =>
      LET found == result[t].list
          matching == {k \in 1..Len(oui_records) :
                         contains_ci(vendor_name[t],
                                     oui_records[k].company_name)}
          returned == {k \in matching :
                         \E i \in 1..Len(found) :
                           found[i].oui = oui_records[k].oui}
      IN  /\ Len(found) <= limit[t]
          /\ \A i \in 1..Len(found) :
                contains_ci(vendor_name[t], found[i].vendor)
          /\ \A i, j \in 1..Len(found) :
                i < j => ~ less(found[j].vendor, found[i].vendor)
          /\ Cardinality(returned) = Len(found)
          /\ Len(found) = limit[t] \/ returned = matching
          /\ \A k \in matching \ returned, j \in returned :
                ~ less(oui_records[k].company_name,
                       oui_records[j].company_name)


\* ---- _extract_oui
first_six(digits) == upper(SubSeq(digits, 1, 6))
dashed(x) == <<x[1], x[2], "-", x[3], x[4], "-", x[5], x[6]>>

\* C30: an address of 6 to 12 hexadecimal digits, however it is written,
\* is mapped to its first six digits in upper case with a dash after the
\* second and the fourth; every other way of writing an address with the
\* same first six digits (other separators, other letter case, other or no
\* digits after the sixth) is mapped to the same prefix.
C30_PrefixOfFirstSix ==
  extract_pc = "returned" =>
    \A w \in Writings :
      extract_address = written(w) =>
        /\ extracted = dashed(first_six(w.digits))
        /\ \A v \in Writings :
              first_six(v.digits) = first_six(w.digits)
                => _extract_oui(written(v)) = extracted

\* "abcd.ef01.2345" gave AB-CD-EF
C30_Witness ==
  /\ extract_pc = "returned"
  /\ extract_address = <<"a", "b", "c", "d", ".", "e", "f", "0", "1", ".",
                         "2", "3", "4", "5">>
  /\ extracted = <<"A", "B", "-", "C", "D", "-", "E", "F">>


\* ---- the HTTP API
\* the addresses requested that are no address in any of the four notations
Malformed == {MacDot, MacNotAMac, <<"4", "2">>}
\* a vendor argument that is absent, empty or white space
EmptyVendor(v) == v.py = "None" \/ \A i \in 1..Len(v.v) : v.v[i] = " "

MalformedRequest(rq) ==
  \/ rq.route = "lookup" /\ rq.mac_address \in Malformed
  \/ rq.route = "search" /\ EmptyVendor(rq.vendor)

ErrorReply(rp) == rp.status >= 400 /\ ~ rp.success

\* the batch request served last, accepted as a list
BatchServed ==
  /\ handler = "idle"
  /\ request.route = "batch"
  /\ request.is_json
  /\ request.mac_addresses.py = "list"
  /\ request.mac_addresses.v # <<>>

NoCacheCallForMalformed ==
  /\ \A k \in 1..Len(called) :
        /\ called[k].method = "lookup_mac" => called[k].arg \notin Malformed
        /\ called[k].method = "search_vendor" => called[k].arg # <<>>
  /\ (handler = "idle" /\ MalformedRequest(request))
        => ErrorReply(reply) /\ called = <<>>
  /\ (BatchServed /\ reply.status = 200) =>
        \A k \in 1..Len(request.mac_addresses.v) :
          str_of(request.mac_addresses.v[k]) \in Malformed
            => /\ ~ reply.results[k].found
               /\ reply.results[k].error = "MAC address non valido"

MalformedLeavesStoreAlone ==
  /\ (handler = "idle" /\ MalformedRequest(request'))
        => UNCHANGED <<tables, locals, io_failures, oui_cache>>
  /\ (handler = "batch" /\ handler' # "batch_lookup")
        => UNCHANGED <<tables, locals, io_failures, oui_cache>>

\* C28: a request for a malformed address, a malformed entry of a batch
\* and a search without a vendor name are answered by the handler itself
\* with an error: lookup_mac and search_vendor are not called for them, and
\* the step that answers them changes neither the store nor the state of
\* any call of the cache.
C28_MalformedAnsweredLocally ==
  []NoCacheCallForMalformed /\ [][MalformedLeavesStoreAlone]_vars

\* "0050.5612.3456", which lookup_mac would accept, was refused by
\* /api/lookup while the store was populated
C28_Witness ==
  /\ handler = "idle"
  /\ request = [route |-> "lookup", mac_address |-> MacDot]
  /\ reply.status = 400
  /\ Len(oui_records) >= 1

\* C29: a list of more than 1000 entries is refused as a whole, without
\* any lookup; for a list of 1 to 1000 entries the answer holds one result
\* per entry, in the order of the entries, a malformed entry is reported
\* not found and the others are still looked up, and found + not_found is
\* the total, the number of entries.
C29_BatchResults ==
  BatchServed =>
    LET entries == request.mac_addresses.v
    IN  IF Len(entries) > 1000
        THEN ErrorReply(reply) /\ called = <<>>
        ELSE /\ reply.status = 200
             /\ Len(reply.results) = Len(entries)
             /\ \A k \in 1..Len(entries) :
                   /\ reply.results[k].mac = entries[k]
                   /\ str_of(entries[k]) \in Malformed
                        => ~ reply.results[k].found
             /\ Len(called)
                  = Cardinality({k \in 1..Len(entries) :
                                  str_of(entries[k]) \notin Malformed})
             /\ reply.summary.total = Len(entries)
             /\ reply.summary.found + reply.summary.not_found
                  = reply.summary.total

\* a list of four entries, two of them malformed, was answered with four
\* results after two lookups
C29_Witness ==
  /\ BatchServed
  /\ Len(request.mac_addresses.v) = 4
  /\ Len(reply.results) = 4
  /\ Len(called) = 2


\* ---- duplicates and failures in a refresh
\* update_cache has come to its end in the current call of t
UpdateOver(t) == UpdateCalled(t) /\ pc[t] \in {"done", "select"}

first_with(rs, oui) ==
  rs[CHOOSE k \in 1..Len(rs) :
       rs[k].oui = oui /\ \A j \in 1..(k - 1) : rs[j].oui # oui]

\* C35: when several parsed records carry the same prefix and the storage
\* does not fail, the refresh comes to its end with True and the store
\* holds, for every prefix parsed, one row: the first record of the input
\* with that prefix.
C35_FirstDuplicateKept ==
  \A t \in Callers :
    (UpdateOver(t) /\ fetch[t] = "ok" /\ io_failures = 0
       /\ ~ DistinctPrefixes(records[t]))
      => /\ updated[t] = "True"
         /\ DistinctPrefixes(oui_records)
         /\ Rows(oui_records)
              = {first_with(records[t], records[t][j].oui) :
                   j \in 1..Len(records[t])}

\* of the two blocks 00-50-56 of the text the store holds "VM", the first
C35_Witness ==
  \E t \in Callers :
    /\ UpdateOver(t) /\ fetch[t] = "ok" /\ io_failures = 0
    /\ Len(records[t]) = 2
    /\ records[t][1].oui = records[t][2].oui
    /\ oui_records = <<records[t][1]>>

\* C36: update_cache ends with True or False, never with an exception, and
\* with True only when the fetch gave a text, the parse gave at least one
\* record and _save_to_cache went through its last statement, the write
\* of total_records.
C36_TrueOnlyAfterFullSave ==
  \A t \in Callers :
    UpdateOver(t) =>
      /\ updated[t] \in {"True", "False"}
      /\ updated[t] = "True" =>
           /\ fetch[t] = "ok"
           /\ Len(records[t]) >= 1
           /\ "delete" \in writes[t]
           /\ metadata_value(cache_metadata, "total_records")
                = <<str(Len(records[t]))>>
           /\ metadata_value(cache_metadata, "last_update")
                = <<isoformat(pre[t].now)>>

\* the DELETE was carried out, a later statement of the save failed, and
\* the call returned False
C36_Witness ==
  \E t \in Callers :
    /\ UpdateOver(t)
    /\ updated[t] = "False"
    /\ "delete" \in writes[t]
    /\ raised[t]


\* ------------------------------------------------- _init_database, again
\* CREATE TABLE that drops what is there
create_table_replacing(rows, exists) == <<>>

\* SQLiteCRUD.create_table: CREATE TABLE IF NOT EXISTS, so the rows of a
\* table that exists stay and a new table starts empty.
create_table(rows, exists) == IF exists THEN rows ELSE <<>>

\* A directory where no OUICache was constructed yet.
InitStartup ==
  /\ CacheInit /\ ParserIdle /\ DownloadIdle /\ ExtractIdle /\ ServingIdle
  /\ schema = {}
  /\ inits = <<>>
  /\ PluginsIdle
  /\ MemoIdle
  /\ RetryIdle
  /\ HeartBeatIdle

\* One run of _init_database (lines 59-105), at construction of an OUICache
\* on the directory.  Statement 1 creates oui_records, 2 the indexes, 3
\* cache_metadata; a failing create_table is logged and passed over
\* (sqlite_manager.py lines 133-136), a failing index statement raises.
_init_database ==
  /\ Len(inits) < MaxInits
  /\ \E failing \in {0} \cup (IF io_failures < MaxIoFailures
                               THEN {1, 2, 3} ELSE {}) :
       LET made_records == failing # 1
           indexed == /\ made_records \/ "oui_records" \in schema
                      /\ failing # 2
           made_metadata == indexed /\ failing # 3
       IN  /\ io_failures' =
                 IF failing = 0 THEN io_failures ELSE io_failures + 1
           /\ oui_records' =
                 IF made_records
                 THEN create_table(oui_records, "oui_records" \in schema)
                 ELSE oui_records
           /\ cache_metadata' =
                 IF made_metadata
                 THEN create_table(cache_metadata,
                                   "cache_metadata" \in schema)
                 ELSE cache_metadata
           /\ schema' = schema
                 \cup (IF made_records THEN {"oui_records"} ELSE {})
                 \cup (IF made_metadata THEN {"cache_metadata"} ELSE {})
  /\ inits' = Append(inits, Len(oui_records))
  /\ UNCHANGED <<now, locals, stats, parsing, downloading, extracting,
                 serving, plugging, memoizing, retrying, beating>>

\* Constructions of OUICache on one directory, and forced refreshes by the
\* objects constructed once both tables are there.
NextStartup ==
  \/ _init_database
  \/ /\ schema = AllTables
     /\ \E t \in Callers : update_cache(t, TRUE)
  \/ \E t \in Callers : _save_to_cache_delete(t)
  \/ \E t \in Callers : _save_to_cache_insert(t)
  \/ \E t \in Callers : _save_to_cache_last_update(t)
  \/ \E t \in Callers : _save_to_cache_total_records(t)

SpecStartup == InitStartup /\ [][NextStartup]_vars

\* C31: a run of _init_database leaves every vendor record and every
\* metadata row as it found them, and takes no table away.
C31_InitIdempotent ==
  [][inits' # inits =>
       /\ oui_records' = oui_records
       /\ cache_metadata' = cache_metadata
       /\ schema \subseteq schema']_vars

\* a later run found vendor rows in the store, and rows and metadata are
\* there after it
C31_Witness ==
  /\ \E k \in 2..Len(inits) : inits[k] >= 1
  /\ oui_records # <<>>
  /\ Len(cache_metadata) = 2


\* --------------------------------------------------------- PluginManager
PluginPaths == {"framework.plugins.builtin", "plugins"}

outside_plugins == <<the_cache, storage, memoizing, retrying, beating>>

has(names, n) == \E k \in 1..Len(names) : names[k] = n

\* del d[n] on a dict whose keys are names
without(names, n) ==
  IF has(names, n)
  THEN LET i == CHOOSE k \in 1..Len(names) : names[k] = n
       IN  SubSeq(names, 1, i - 1) \o SubSeq(names, i + 1, Len(names))
  ELSE names

list_plugins == plugins

\* What the tests do to get a plugin loaded (test_pligin.py lines 50-52):
\* a new TestPlugin is put into the dict and its initialize() is called.
register_plugin(n) ==
  /\ plugins' = IF has(plugins, n) THEN plugins ELSE Append(plugins, n)
  /\ initialized' = [initialized EXCEPT ![n] = TRUE]
  /\ plugin_call' = [method |-> "register", name |-> n, returned |-> TRUE]
  /\ UNCHANGED <<plugin_paths, outside_plugins>>

add_plugin_path(p) ==
  /\ plugin_paths' =
       IF has(plugin_paths, p) THEN plugin_paths ELSE Append(plugin_paths, p)
  /\ plugin_call' = [method |-> "add_plugin_path", name |-> p,
                     returned |-> TRUE]
  /\ UNCHANGED <<plugins, initialized, outside_plugins>>

\* load_plugin (lines 41-64) loads nothing: True for a name that is in the
\* dict, False otherwise.
load_plugin(n) ==
  /\ plugin_call' = [method |-> "load_plugin", name |-> n,
                     returned |-> has(plugins, n)]
  /\ UNCHANGED <<plugins, plugin_paths, initialized, outside_plugins>>

\* unload_plugin (lines 66-71): the name leaves the dict; nothing is
\* called on the plugin object.
unload_plugin(n) ==
  /\ plugins' = without(plugins, n)
  /\ plugin_call' = [method |-> "unload_plugin", name |-> n,
                     returned |-> has(plugins, n)]
  /\ UNCHANGED <<plugin_paths, initialized, outside_plugins>>

NextPlugins ==
  \/ \E n \in PluginNames : register_plugin(n)
  \/ \E p \in PluginPaths : add_plugin_path(p)
  \/ \E n \in PluginNames : load_plugin(n)
  \/ \E n \in PluginNames : unload_plugin(n)

SpecPlugins == Init /\ [][NextPlugins]_vars

\* C32: when unload_plugin(name) has returned for a plugin that was loaded,
\* name is not in list_plugins() and the cleanup() of the plugin has run:
\* its flag initialized is False again.
C32_UnloadCleansUp ==
  (plugin_call.method = "unload_plugin" /\ plugin_call.returned)
    => /\ ~ has(list_plugins, plugin_call.name)
       /\ ~ initialized[plugin_call.name]


\* ---------------------------------------------------------- cache_result
outside_memo == <<the_cache, storage, plugging, retrying, beating>>

\* how long one run of the decorated function takes, in ticks of the clock
Durations == {0, 1}

\* The decorator applied with arguments of the caller's choice.
InitMemo ==
  /\ CacheInit /\ ParserIdle /\ DownloadIdle /\ ExtractIdle /\ ServingIdle
  /\ StorageReady /\ PluginsIdle /\ RetryIdle /\ HeartBeatIdle
  /\ ttl_seconds \in 1..MaxTtl
  /\ max_size \in 1..MaxMaxSize
  /\ MemoEmpty

\* key in d, d[key], d[key] = entry and del d[key] on a dict held as the
\* sequence of its entries
has_key(d, k) == \E i \in 1..Len(d) : d[i].key = k

get(d, k) == d[CHOOSE i \in 1..Len(d) : d[i].key = k]

put(d, entry) ==
  IF has_key(d, entry.key)
  THEN [i \in 1..Len(d) |-> IF d[i].key = entry.key THEN entry ELSE d[i]]
  ELSE Append(d, entry)

del(d, k) ==
  IF has_key(d, k)
  THEN LET i == CHOOSE j \in 1..Len(d) : d[j].key = k
       IN  SubSeq(d, 1, i - 1) \o SubSeq(d, i + 1, Len(d))
  ELSE d

keys(d) == {d[i].key : i \in 1..Len(d)}

\* eviction of the entry used last
newest_key(a) ==
  a[CHOOSE i \in 1..Len(a) :
      /\ \A j \in 1..Len(a) : a[j].time <= a[i].time
      /\ \A j \in 1..(i - 1) : a[j].time < a[i].time].key

\* min(access_times.keys(), key=lambda k: access_times[k]) (line 154): the
\* first key, in dict order, of those with the least access time.
oldest_key(a) ==
  a[CHOOSE i \in 1..Len(a) :
      /\ \A j \in 1..Len(a) : a[j].time >= a[i].time
      /\ \A j \in 1..(i - 1) : a[j].time > a[i].time].key

\* One call of the wrapper (lines 127-162) with arguments that give key k,
\* while a run of the function takes d ticks and ends as outcome says.
wrapper(k, d, outcome) ==
  LET current_time == clock
      known == has_key(cache, k)
      hit == known /\ current_time - get(cache, k).timestamp < ttl_seconds
      cache_1 == del(cache, k)
      access_1 == del(access_times, k)
      full == Len(cache_1) >= max_size
      evicted == IF full THEN <<oldest_key(access_1)>> ELSE <<>>
      cache_2 == IF full THEN del(cache_1, evicted[1]) ELSE cache_1
      access_2 == IF full THEN del(access_1, evicted[1]) ELSE access_1
      seen == [kind |-> "keyed", key |-> k, at |-> current_time,
               known |-> known,
               age |-> IF known THEN current_time - cached_at[k] ELSE 0,
               held |-> IF known THEN <<get(cache, k).result>> ELSE <<>>,
               before |-> access_1]
  IN  IF hit
      THEN /\ access_times' =
                put(access_times, [key |-> k, time |-> current_time])
           /\ memo_call' = seen @@ [invoked |-> FALSE, evicted |-> <<>>,
                                    returned |-> <<get(cache, k).result>>]
           /\ UNCHANGED <<cache, clock, call_count, cached_at>>
      ELSE /\ call_count < MaxCalls
           /\ clock + d <= MaxClock
           /\ clock' = clock + d
           /\ call_count' = call_count + 1
           /\ IF outcome = "return"
              THEN /\ cache' = put(cache_2, [key |-> k,
                                             result |-> call_count + 1,
                                             timestamp |-> current_time])
                   /\ access_times' =
                        put(access_2, [key |-> k, time |-> current_time])
                   /\ cached_at' = [cached_at EXCEPT ![k] = clock + d]
                   /\ memo_call' =
                        seen @@ [invoked |-> TRUE, evicted |-> evicted,
                                 returned |-> <<call_count + 1>>]
              ELSE /\ cache' = cache_1
                   /\ access_times' = access_1
                   /\ memo_call' = seen @@ [invoked |-> TRUE,
                                            evicted |-> <<>>,
                                            returned |-> <<>>]
                   /\ UNCHANGED cached_at

call_wrapper(k, d, outcome) ==
  /\ wrapper(k, d, outcome)
  /\ UNCHANGED <<ttl_seconds, max_size, outside_memo>>

\* A call whose key cannot be made (lines 129-133): the function runs and
\* the dicts are left alone.
call_without_key(d) ==
  /\ call_count < MaxCalls
  /\ clock + d <= MaxClock
  /\ clock' = clock + d
  /\ call_count' = call_count + 1
  /\ memo_call' = [kind |-> "no key", invoked |-> TRUE,
                   returned |-> <<call_count + 1>>]
  /\ UNCHANGED <<ttl_seconds, max_size, cache, access_times, cached_at,
                 outside_memo>>

\* wrapper.cache_clear (line 165)
cache_clear ==
  /\ cache' = <<>>
  /\ access_times' = <<>>
  /\ memo_call' = [kind |-> "cache_clear"]
  /\ UNCHANGED <<ttl_seconds, max_size, clock, call_count, cached_at,
                 outside_memo>>

\* time passing between two calls
pass_time ==
  /\ clock < MaxClock
  /\ clock' = clock + 1
  /\ UNCHANGED <<ttl_seconds, max_size, cache, access_times, call_count,
                 cached_at, memo_call, outside_memo>>

NextMemo ==
  \/ \E k \in MemoKeys, d \in Durations, outcome \in {"return", "raise"} :
       call_wrapper(k, d, outcome)
  \/ \E d \in Durations : call_without_key(d)
  \/ cache_clear
  \/ pass_time

SpecMemo == InitMemo /\ [][NextMemo]_vars

\* C33: a call for a key whose result was put in the cache less than
\* ttl_seconds ago does not run the function and returns that result; a
\* call made ttl_seconds or more after the result was cached runs the
\* function again and caches what it returns.
C33_TtlFromCaching ==
  (memo_call.kind = "keyed" /\ memo_call.known) =>
    IF memo_call.age < ttl_seconds
    THEN ~ memo_call.invoked /\ memo_call.returned = memo_call.held
    ELSE /\ memo_call.invoked
         /\ memo_call.returned # <<>> =>
              /\ has_key(cache, memo_call.key)
              /\ <<get(cache, memo_call.key).result>> = memo_call.returned

\* C37: the cache never holds more than max_size entries, cache and
\* access_times have the same keys, and the entry a call evicts to make
\* room has the least access time of the entries that were there.
C37_SizeAndLru ==
  /\ Len(cache) <= max_size
  /\ Len(access_times) = Len(cache)
  /\ keys(cache) = keys(access_times)
  /\ Cardinality(keys(cache)) = Len(cache)
  /\ (memo_call.kind = "keyed" /\ memo_call.evicted # <<>>) =>
       /\ Len(memo_call.before) >= max_size
       /\ has_key(memo_call.before, memo_call.evicted[1])
       /\ ~ has_key(cache, memo_call.evicted[1])
            \/ memo_call.evicted[1] = memo_call.key
       /\ \A i \in 1..Len(memo_call.before) :
            memo_call.before[i].time
              >= get(memo_call.before, memo_call.evicted[1]).time

\* a full cache from which a call evicted the older of two entries used at
\* different times
C37_Witness ==
  /\ memo_call.kind = "keyed"
  /\ memo_call.evicted # <<>>
  /\ Len(cache) = max_size
  /\ \E i \in 1..Len(memo_call.before) :
       memo_call.before[i].time
         > get(memo_call.before, memo_call.evicted[1]).time


\* ----------------------------------------------------------------- retry
outside_retry == <<the_cache, storage, plugging, memoizing, beating>>

Backoff == 2

\* what a run of the decorated function can raise, and what it can return
Raisable == {"ValueError", "KeyError", "KeyboardInterrupt"}
Returnable == {"None", "'success'"}

\* the tuples the decorator is given as exceptions
Listings == {{"Exception"}, {"ValueError"}, {"ValueError", "KeyError"}}

InitRetry ==
  /\ CacheInit /\ ParserIdle /\ DownloadIdle /\ ExtractIdle /\ ServingIdle
  /\ StorageReady /\ PluginsIdle /\ MemoIdle /\ HeartBeatIdle
  /\ max_attempts \in 1..MaxAttempts
  /\ exceptions \in Listings
  /\ RetryStart

\* isinstance(e, c) for the types above: ValueError and KeyError derive
\* from Exception, KeyboardInterrupt does not.
isinstance(type, c) ==
  \/ type = c
  \/ c = "Exception" /\ type \in {"ValueError", "KeyError"}

\* "except Exception" in place of "except exceptions"
caught_as_exception(type, listed) == isinstance(type, "Exception")

\* "except exceptions as e" (line 51)
caught(type, listed) == \E c \in listed : isinstance(type, c)

\* One turn of the loop of sync_wrapper (lines 48-59; async_wrapper, lines
\* 29-40, is the same with await): the function runs as attempt number
\* Len(attempts) of range(max_attempts) and ends as ending says.
retry_attempt(ending) ==
  /\ retry_pc = "loop"
  /\ LET turn == Len(attempts)
         e == [kind |-> "raise", type |-> ending.type, attempt |-> turn]
     IN  /\ attempts' = Append(attempts, ending)
         /\ IF ending.kind = "return"
            THEN /\ retry_pc' = "returned"
                 /\ retry_result' = ending
                 /\ UNCHANGED <<current_delay, slept>>
            ELSE IF ~ caught(ending.type, exceptions)
            THEN /\ retry_pc' = "raised"
                 /\ retry_result' = e
                 /\ UNCHANGED <<current_delay, slept>>
            ELSE IF turn < max_attempts - 1
            THEN /\ slept' = Append(slept, current_delay)
                 /\ current_delay' = current_delay * Backoff
                 /\ UNCHANGED <<retry_pc, retry_result>>
            ELSE /\ retry_pc' = "raised"
                 /\ retry_result' = e
                 /\ UNCHANGED <<current_delay, slept>>
  /\ UNCHANGED <<max_attempts, exceptions, outside_retry>>

\* the decorated function is called once more
retry_call ==
  /\ retry_pc # "loop"
  /\ attempts' = <<>>
  /\ current_delay' = 1
  /\ slept' = <<>>
  /\ retry_pc' = "loop"
  /\ retry_result' = NoResult
  /\ UNCHANGED <<max_attempts, exceptions, outside_retry>>

Endings ==
  [kind : {"return"}, value : Returnable]
    \cup [kind : {"raise"}, type : Raisable]

NextRetry ==
  \/ \E ending \in Endings : retry_attempt(ending)
  \/ retry_call

SpecRetry == InitRetry /\ [][NextRetry]_vars

Retried(i) ==
  /\ attempts[i].kind = "raise"
  /\ \E c \in exceptions : isinstance(attempts[i].type, c)

\* C34: in one call the function runs at most max_attempts times; every
\* run but the last raised a listed exception; a return ends the call with
\* the value returned; a listed exception ends it only as the last of
\* max_attempts and is then raised; an exception that is not listed ends
\* it at once and is raised.
C34_RetryBounded ==
  /\ Len(attempts) <= max_attempts
  /\ \A i \in 1..(Len(attempts) - 1) : Retried(i)
  /\ retry_pc = "loop" =>
       /\ Len(attempts) < max_attempts
       /\ \A i \in 1..Len(attempts) : Retried(i)
  /\ retry_pc = "returned" =>
       /\ attempts # <<>>
       /\ attempts[Len(attempts)].kind = "return"
       /\ retry_result = attempts[Len(attempts)]
  /\ retry_pc = "raised" =>
       /\ attempts # <<>>
       /\ attempts[Len(attempts)].kind = "raise"
       /\ retry_result = [kind |-> "raise",
                          type |-> attempts[Len(attempts)].type,
                          attempt |-> Len(attempts) - 1]
       /\ Retried(Len(attempts)) => Len(attempts) = max_attempts

\* all of three attempts raised a listed exception and the last one was
\* raised to the caller
C34_Witness ==
  /\ retry_pc = "raised"
  /\ max_attempts = 3
  /\ Len(attempts) = max_attempts
  /\ Retried(Len(attempts))
  /\ retry_result.attempt = 2


\* ------------------------------------------------------------- HeartBeat
outside_heartbeat == <<the_cache, storage, plugging, memoizing, retrying>>

\* thread.join(timeout=5) (line 76)
JoinTimeout == 5

\* the default interval (line 12) and a short one
Intervals == {1, 30}

InitHeartBeat ==
  /\ CacheInit /\ ParserIdle /\ DownloadIdle /\ ExtractIdle /\ ServingIdle
  /\ StorageReady /\ PluginsIdle /\ MemoIdle /\ RetryIdle
  /\ interval \in Intervals
  /\ HeartBeatNew

\* is_alive() of thread i
alive(i) == loops[i] # "exited"

\* start() (lines 64-70): nothing when running is set, else the flag is set
\* and a new thread begins _heartbeat_loop.
start ==
  /\ beat_pc = "idle"
  /\ Len(beat_calls) < MaxBeatCalls
  /\ beat_calls' = Append(beat_calls, "start")
  /\ IF ~ running
     THEN /\ Len(loops) < MaxThreads
          /\ running' = TRUE
          /\ thread' = Len(loops) + 1
          /\ loops' = Append(loops, "test")
     ELSE UNCHANGED <<running, thread, loops>>
  /\ UNCHANGED <<interval, beat_pc, outside_heartbeat>>

\* stop() up to the join (lines 74-76)
stop ==
  /\ beat_pc = "idle"
  /\ Len(beat_calls) < MaxBeatCalls
  /\ beat_calls' = Append(beat_calls, "stop")
  /\ running' = FALSE
  /\ beat_pc' = IF thread # 0 THEN "joining" ELSE "idle"
  /\ UNCHANGED <<interval, thread, loops, outside_heartbeat>>

\* join(timeout=5) returns when the thread has ended, or after 5 seconds
\* while the thread is still in a sleep(interval) longer than that; stop()
\* then returns (line 77).
join_returns ==
  /\ beat_pc = "joining"
  /\ \/ ~ alive(thread)
     \/ loops[thread] = "sleeping" /\ interval > JoinTimeout
  /\ beat_pc' = "idle"
  /\ UNCHANGED <<interval, running, thread, loops, beat_calls,
                 outside_heartbeat>>

\* "while self.running" (line 44): the loop ends when the flag is down,
\* otherwise it checks the connection, runs the callback and goes to
\* sleep (lines 45-62).
loop_test(i) ==
  /\ loops[i] = "test"
  /\ loops' = [loops EXCEPT ![i] = IF running THEN "sleeping" ELSE "exited"]
  /\ UNCHANGED <<interval, running, thread, beat_pc, beat_calls,
                 outside_heartbeat>>

\* time.sleep(self.interval) is over
loop_wake(i) ==
  /\ loops[i] = "sleeping"
  /\ loops' = [loops EXCEPT ![i] = "test"]
  /\ UNCHANGED <<interval, running, thread, beat_pc, beat_calls,
                 outside_heartbeat>>

NextHeartBeat ==
  \/ start
  \/ stop
  \/ join_returns
  \/ \E i \in 1..Len(loops) : loop_test(i)
  \/ \E i \in 1..Len(loops) : loop_wake(i)

SpecHeartBeat == InitHeartBeat /\ [][NextHeartBeat]_vars

\* C38: whatever calls of start() and stop() were made on a HeartBeat, at
\* most one of the threads it started is still running its loop once the
\* calls have returned.
C38_OneLoop ==
  beat_pc = "idle" => Cardinality({i \in 1..Len(loops) : alive(i)}) <= 1

====
